---- MODULE Spec2Model ----
(***************************************************************************)
(* A model of the document enrichment pipeline of markitdown-api           *)
(* (src/classes/services.py), of its image extractor and retention sweep   *)
(* (src/classes/image_extractor.py) and of the cleanup scheduler           *)
(* (src/classes/scheduler.py).                                             *)
(*                                                                         *)
(* TEXT.  A Python str is modelled as a sequence of atoms.  An atom is a   *)
(* TLA+ string standing for that literal run of characters: one            *)
(* whitespace or punctuation character ("\n", " ", "!", "[", ...) or one   *)
(* alphanumeric word ("x", "bas", "e64", "Course", ...).  An atom written  *)
(* c*n stands for n repetitions of the character c ("A*136").  Every       *)
(* character class used by the regular expressions of the source contains  *)
(* either all characters of an atom or none of them, so each regular       *)
(* expression is evaluated on atoms exactly as Python's re evaluates it on *)
(* the characters.  The substring base64 is the word "bas" followed by the *)
(* word "e64": it can be cut in two and joined again.                      *)
(***************************************************************************)
EXTENDS Integers, Sequences, FiniteSets, TLC

VARIABLES
    doc,    \* a text function under test: [text, prev, calls]
    job,    \* one conversion request (convert_file / convert_url)
    disk,   \* the image-storage root and its entries
    sched,  \* ImageCleanupScheduler and the schedule library's job list
    now     \* wall clock, in days

vars == <<doc, job, disk, sched, now>>

----------------------------------------------------------------------------
(* Atoms and character classes                                             *)

\* the characters Python's \s and str.strip() treat as whitespace
Ws == {"\n", " ", "\f"}

\* the one-character punctuation atoms
Punct == {"#", "!", "[", "]", "(", ")", ";", ",", ":", "/", ".", "-", "_",
          "=", "<", ">", "\"", "'", "@", "*", "+", "?"}

\* number of characters of an atom
CharLen(a) ==
    CASE a \in Ws \cup Punct -> 1
      [] a = "A*8"   -> 8
      [] a = "A*24"  -> 24
      [] a = "A*136" -> 136
      [] a = "d*140" -> 140
      [] a = "-*6"   -> 6
      [] OTHER       -> Len(a)

\* The words of the texts, by the character classes the source tests.  Every
\* other atom that is neither whitespace nor punctuation is a lower-case
\* word ("x", "bas", "data", "hello", "d*140", ...; "e64" ends in digits).
CapWords   == {"Course", "Outline", "Grading", "Scheme", "Office", "Hours",
               "Monday", "Page"}               \* [A-Z][a-z]+
CapsWords  == {"A*8", "A*24", "A*136", "II"}   \* [A-Z]+
DigitWords == {"2024"} \cup {ToString(n) : n \in 0..99}   \* \d+; page numbers
Dashes     == {"-", "=", "_", "-*6"}           \* [-=_]+
IsWordAtom(a) == a \notin Ws \cup Punct \cup {"-*6"}
LetterWord(a) == IsWordAtom(a) /\ a \notin DigitWords \cup {"e64"}
FirstUpper(a) == a \in CapWords \cup CapsWords
FirstLower(a) == IsWordAtom(a) /\ a \notin CapWords \cup CapsWords \cup DigitWords

RECURSIVE StrLen(_)
\* len(s) of a str
StrLen(s) ==
    IF Len(s) = 0 THEN 0
    ELSE IF Len(s) = 1 THEN CharLen(s[1])
    ELSE StrLen(SubSeq(s, 1, Len(s) \div 2))
         + StrLen(SubSeq(s, Len(s) \div 2 + 1, Len(s)))

\* least index k >= i with s[k] \in S, 0 when there is none
FirstAt(s, i, S) ==
    LET K == {k \in i..Len(s) : s[k] \in S}
    IN  IF K = {} THEN 0 ELSE CHOOSE k \in K : \A j \in K : k <= j

\* last index of the longest run s[i..] of atoms of S (i-1 when it is empty):
\* the extent of a greedy [class]* started at i
RunEnd(s, i, S) ==
    LET k == FirstAt(s, i, {s[j] : j \in i..Len(s)} \ S)
    IN  IF k = 0 THEN Len(s) ELSE k - 1

\* str.lower(), atom by atom
Lower(s) ==
    LET low(a) == CASE a = "Course" -> "course" [] a = "Outline" -> "outline"
                    [] a = "Grading" -> "grading" [] a = "Scheme" -> "scheme"
                    [] a = "Office" -> "office" [] a = "Hours" -> "hours"
                    [] a = "Monday" -> "monday" [] a = "Page" -> "page"
                    [] a = "Document" -> "document" [] a = "Images" -> "images"
                    [] a = "Additional" -> "additional" [] a = "Plato" -> "plato"
                    [] a = "II" -> "ii" [] a = "A*8" -> "a*8"
                    [] a = "A*24" -> "a*24" [] a = "A*136" -> "a*136"
                    [] a = "Pyrrhus" -> "pyrrhus"
                    [] a = "Villegaignon" -> "villegaignon"
                    [] a = "Plutarch" -> "plutarch"
                    [] a = "Montaigne" -> "montaigne"
                    [] a = "Caesar" -> "caesar"
                    [] a = "Lycurgus" -> "lycurgus"
                    [] a = "Herodotus" -> "herodotus"
                    [] a = "Seneca" -> "seneca"
                    [] a = "Scythians" -> "scythians"
                    [] a = "Propertius" -> "propertius"
                    [] a = "Virgil" -> "virgil"
                    [] a = "Juvenal" -> "juvenal"
                    [] a = "Chrysippus" -> "chrysippus"
                    [] a = "Zeno" -> "zeno"
                    [] a = "Thermopylae" -> "thermopylae"
                    [] a = "Salamis" -> "salamis"
                    [] a = "Plataea" -> "plataea"
                    [] a = "Julius" -> "julius"
                    [] a = "Roman" -> "roman"
                    [] a = "Greek" -> "greek"
                    [] a = "Michel" -> "michel"
                    [] a = "Lucius" -> "lucius"
                    [] a = "Annaeus" -> "annaeus"
                    [] a = "Battle" -> "battle"
                    [] a = "Citium" -> "citium"
                    [] OTHER -> a
    IN  [k \in 1..Len(s) |-> low(s[k])]

\* needle in hay
Contains(hay, needle) ==
    \E k \in 0..(Len(hay) - Len(needle)) : SubSeq(hay, k + 1, k + Len(needle)) = needle

\* s[a..b] contains the substring base64
HasBase64(s, a, b) == \E k \in a..(b - 1) : s[k] = "bas" /\ s[k + 1] = "e64"

\* the atoms any character of the class [A-Za-z0-9+/=] belongs to
IsB64(a) == IsWordAtom(a) \/ a \in {"+", "/", "="}

\* str.strip()
Strip(s) ==
    LET K == {k \in 1..Len(s) : s[k] \notin Ws}
    IN  IF K = {} THEN <<>>
        ELSE SubSeq(s, CHOOSE k \in K : \A j \in K : k <= j,
                       CHOOSE k \in K : \A j \in K : j <= k)

----------------------------------------------------------------------------
(* _remove_remaining_base64_images                                         *)

\* !\[[^\]]*\]\(  matched at i: the index of its "(", 0 when it does not match
ImgOpen(s, i) ==
    IF i + 1 <= Len(s) /\ s[i] = "!" /\ s[i + 1] = "["
    THEN LET j == FirstAt(s, i + 2, {"]"})
         IN  IF j # 0 /\ j + 1 <= Len(s) /\ s[j + 1] = "(" THEN j + 1 ELSE 0
    ELSE 0

\* The last index of the match of pattern p that starts at index i of s, 0
\* when p does not match there.
MatchEnd(p, s, i) ==
    LET n == Len(s)
        o == ImgOpen(s, i)
        c == IF o = 0 THEN 0 ELSE FirstAt(s, o + 1, {")"})
        At(k, a) == k <= n /\ s[k] = a
    IN
    CASE p = "img_base64" ->      \* !\[[^\]]*\]\([^)]*base64[^)]*\)
           IF o # 0 /\ c # 0 /\ HasBase64(s, o + 1, c - 1) THEN c ELSE 0
      [] p = "img_data" ->        \* !\[[^\]]*\]\(data:[^)]+\)
           IF o # 0 /\ c # 0 /\ At(o + 1, "data") /\ At(o + 2, ":") /\ c > o + 3
           THEN c ELSE 0
      [] p = "html_img" ->        \* <img[^>]*src=["'][^"']*base64[^"']*["'][^>]*>
           LET Q == {"\"", "'"}
               gt == FirstAt(s, i + 2, {">"})
               lim == IF gt = 0 THEN n ELSE gt
               \* the src= that the greedy [^>]* can reach and that completes
               C == {k \in (i + 2)..lim :
                        /\ At(k, "src") /\ At(k + 1, "=") /\ k + 2 <= n
                        /\ s[k + 2] \in Q
                        /\ LET q == FirstAt(s, k + 3, Q)
                           IN  /\ q # 0
                               /\ HasBase64(s, k + 3, q - 1)
                               /\ FirstAt(s, q + 1, {">"}) # 0}
               k == CHOOSE x \in C : \A y \in C : y <= x
           IN  IF At(i, "<") /\ At(i + 1, "img") /\ C # {}
               THEN FirstAt(s, FirstAt(s, k + 3, Q) + 1, {">"})
               ELSE 0
      [] p = "data_url" ->        \* data:image/[^;,\s]+[;,][^)\s]*
           LET r == RunEnd(s, i + 4, {s[j] : j \in 1..n} \ ({";", ","} \cup Ws))
           IN  IF /\ At(i, "data") /\ At(i + 1, ":") /\ At(i + 2, "image")
                  /\ At(i + 3, "/") /\ r >= i + 4 /\ r + 1 <= n
                  /\ s[r + 1] \in {";", ","}
               THEN RunEnd(s, r + 2, {s[j] : j \in 1..n} \ ({")"} \cup Ws))
               ELSE 0
      [] p = "img_long" ->        \* !\[[^\]]*\]\([^)]{150,}\)
           IF o # 0 /\ c # 0 /\ StrLen(SubSeq(s, o + 1, c - 1)) >= 150
           THEN c ELSE 0
      [] p = "b64_chunk" ->       \* base64,[A-Za-z0-9+/=]{20,}
           LET r == RunEnd(s, i + 3, {a \in {s[j] : j \in 1..n} : IsB64(a)})
           IN  IF /\ At(i, "bas") /\ At(i + 1, "e64") /\ At(i + 2, ",")
                  /\ StrLen(SubSeq(s, i + 3, r)) >= 20
               THEN r ELSE 0
      [] p = "semi_b64" ->        \* ;base64,[A-Za-z0-9+/=]+
           LET r == RunEnd(s, i + 4, {a \in {s[j] : j \in 1..n} : IsB64(a)})
           IN  IF /\ At(i, ";") /\ At(i + 1, "bas") /\ At(i + 2, "e64")
                  /\ At(i + 3, ",") /\ r >= i + 4
               THEN r ELSE 0
      [] p = "img_empty" ->       \* !\[[^\]]*\]\(\s*\)
           LET r == IF o = 0 THEN 0 ELSE RunEnd(s, o + 1, Ws)
           IN  IF o # 0 /\ At(r + 1, ")") THEN r + 1 ELSE 0
      [] p = "blank_run" ->       \* \n\s*\n\s*\n+
           LET r == RunEnd(s, i, Ws)
               N == {k \in i..r : s[k] = "\n"}
           IN  IF At(i, "\n") /\ Cardinality(N) >= 3
               THEN CHOOSE x \in N : \A y \in N : y <= x
               ELSE 0
      [] OTHER -> 0

RECURSIVE Replace(_, _, _, _)
\* re.sub scanned from index i, one match at a time: End(k) is the last index
\* of the match that starts at k (0: none), Rep(k) what replaces it
Replace(End(_), Rep(_), s, i) ==
    LET k == FirstAt([j \in 1..Len(s) |-> End(j) # 0], i, {TRUE})
    IN  IF k = 0 THEN SubSeq(s, i, Len(s))
        ELSE SubSeq(s, i, k - 1) \o Rep(k) \o Replace(End, Rep, s, End(k) + 1)

\* re.sub(p, rep, s); with rep = <<>> it is also the removal of every match
\* of re.finditer(p, s), last match first
Sub(p, rep, s) == Replace(LAMBDA k : MatchEnd(p, s, k), LAMBDA k : rep, s, 1)

\* re.sub(r'^\s*\n+', '', s)
DropLeadingBlank(s) ==
    LET N == {k \in 1..RunEnd(s, 1, Ws) : s[k] = "\n"}
    IN  IF N = {} THEN s
        ELSE SubSeq(s, (CHOOSE x \in N : \A y \in N : y <= x) + 1, Len(s))

\* re.sub(r'\n+\s*$', '\n', s)
TrimTrailingBlank(s) ==
    LET K == {k \in 1..Len(s) : s[k] \notin Ws}
        last == IF K = {} THEN 0 ELSE CHOOSE k \in K : \A j \in K : j <= k
        f == FirstAt(s, last + 1, {"\n"})
    IN  IF f = 0 THEN s ELSE SubSeq(s, 1, f - 1) \o <<"\n">>

RECURSIVE SubAll(_, _)
\* the loop "for pattern in patterns": every match of each pattern removed
SubAll(patterns, s) ==
    IF patterns = <<>> THEN s
    ELSE SubAll(Tail(patterns), Sub(Head(patterns), <<>>, s))

_remove_remaining_base64_images(content) ==
    IF content = <<>> THEN content
    ELSE LET base64_patterns ==
                 <<"img_base64", "img_data", "html_img", "data_url", "img_long">>
             suspicious_patterns == <<"b64_chunk", "semi_b64">>
             cleanup == <<"img_empty">>
             removed == SubAll(base64_patterns \o suspicious_patterns \o cleanup,
                               content)
         IN  Strip(TrimTrailingBlank(DropLeadingBlank(
                 Sub("blank_run", <<"\n", "\n">>, removed))))

----------------------------------------------------------------------------
(* _enhance_heading_detection                                              *)

RECURSIVE Cat(_, _, _)
\* f[lo] + ... + f[hi], by halves
Cat(f, lo, hi) ==
    IF lo > hi THEN <<>>
    ELSE IF lo = hi THEN f[lo]
    ELSE Cat(f, lo, (lo + hi) \div 2) \o Cat(f, (lo + hi) \div 2 + 1, hi)

\* s.split(sep) for a one-character sep
Split(s, sep) ==
    LET N == {k \in 1..Len(s) : s[k] = sep}
        \* the index of separator number j; 0 and Len(s)+1 bound the text
        at(j) == IF j = 0 THEN 0
                 ELSE IF j > Cardinality(N) THEN Len(s) + 1
                 ELSE CHOOSE k \in N : Cardinality({m \in N : m < k}) = j - 1
    IN  [j \in 1..(Cardinality(N) + 1) |-> SubSeq(s, at(j - 1) + 1, at(j) - 1)]

SplitLines(s) == Split(s, "\n")

\* sep.join(ls)
Join(ls, sep) ==
    Cat([k \in 1..(2 * Len(ls) - 1) |->
            IF k % 2 = 1 THEN ls[(k + 1) \div 2] ELSE sep], 1, 2 * Len(ls) - 1)

JoinLines(ls) == Join(ls, <<"\n">>)

\* index of the first atom after a leading run of letters of at least two
\* characters ([A-Z][a-z]+ under re.IGNORECASE), 0 when the line has none
AfterLetters(line) ==
    LET r == RunEnd(line, 1, {a \in {line[j] : j \in 1..Len(line)} : LetterWord(a)})
    IN  IF r >= 1 /\ StrLen(SubSeq(line, 1, r)) >= 2 THEN r + 1 ELSE 0

\* exclusion_patterns: re.search(p, line, re.IGNORECASE) for some p
IsExcluded(line) ==
    LET n == Len(line)
        At(k, a) == k <= n /\ line[k] = a
        In(k, S) == k <= n /\ line[k] \in S
        colon == FirstAt(line, 1, {":"})
        l == AfterLetters(line)
        d1 == RunEnd(line, 1, DigitWords)
        d2 == RunEnd(line, d1 + 2, DigitWords)
    IN  \* ^(Prof\.?|Dr\.?|Mr\.?|Ms\.?|Mrs\.?)\s+
        \/ /\ In(1, {"Prof", "Dr", "Mr", "Ms", "Mrs"})
           /\ In(IF At(2, ".") THEN 3 ELSE 2, Ws)
        \* .*@.*\..*
        \/ \E i \in 1..n : line[i] = "@" /\ FirstAt(line, i + 1, {"."}) # 0
        \* .*(https?://|www\.|\.com|\.org|\.net)
        \/ \E i \in 1..n :
              \/ /\ line[i] \in {"http", "https"}
                 /\ At(i + 1, ":") /\ At(i + 2, "/") /\ At(i + 3, "/")
              \/ line[i] = "www" /\ At(i + 1, ".")
              \/ line[i] = "." /\ In(i + 1, {"com", "org", "net"})
        \* ^(Phone|Tel|Email|Fax|Address|Office):?\s*
        \/ In(1, {"Phone", "Tel", "Email", "Fax", "Address", "Office"})
        \* ^(Course|Class|Section|Semester|Room|Time|Day|Location)\s*:
        \/ /\ In(1, {"Course", "Class", "Section", "Semester", "Room", "Time",
                     "Day", "Location"})
           /\ At(RunEnd(line, 2, Ws) + 1, ":")
        \* ^[^:]{1,30}:\s*
        \/ colon # 0 /\ StrLen(SubSeq(line, 1, colon - 1)) \in 1..30
        \* .*(phone|email|office|room|building|semester|lecture|tutorial|lab).*
        \* .*(zoom|meeting|conference).*
        \/ \E i \in 1..n : line[i] \in {"Office"}
        \* ^[A-Z][a-z]+\s+\d{4}
        \/ /\ l # 0 /\ In(l, Ws)
           /\ In(RunEnd(line, l, Ws) + 1, {a \in DigitWords : CharLen(a) >= 4})
        \* ^\d+:\d+\s*(AM|PM)
        \/ /\ d1 >= 1 /\ At(d1 + 1, ":") /\ d2 >= d1 + 2
           /\ In(RunEnd(line, d2 + 1, Ws) + 1, {"AM", "PM", "am", "pm"})
        \* ^[A-Z][a-z]+,\s*\d
        \/ /\ l # 0 /\ At(l, ",")
           /\ In(RunEnd(line, l + 1, Ws) + 1, DigitWords)

RECURSIVE NumberEnd(_, _)
\* index after (?:\.\d+)* matched from index k
NumberEnd(line, k) ==
    IF k + 1 <= Len(line) /\ line[k] = "." /\ line[k + 1] \in DigitWords
    THEN NumberEnd(line, RunEnd(line, k + 1, DigitWords) + 1)
    ELSE k

\* heading_patterns: [hit |-> re.match(p, line) for some p, text |-> heading_text]
PatternHeading(line) ==
    LET n == Len(line)
        At(k, a) == k <= n /\ line[k] = a
        \* [A-Z][A-Za-z\s]{3,}$ matched from index k
        Title(k) == /\ k <= n /\ FirstUpper(line[k])
                    /\ \A j \in k..n : LetterWord(line[j]) \/ line[j] \in Ws
                    /\ StrLen(SubSeq(line, k, n)) >= 4
        \* ^[A-Z][A-Z\s\d\-]{8,}[A-Z\d]$
        caps == /\ n >= 1 /\ line[1] \in CapsWords
                /\ line[n] \in CapsWords \cup DigitWords
                /\ \A j \in 1..n :
                      line[j] \in CapsWords \cup DigitWords \cup Ws \cup {"-", "-*6"}
                /\ StrLen(line) >= 10
        \* ^\d+(?:\.\d+)*\.?\s+[A-Z][A-Za-z\s]{3,}$
        d == RunEnd(line, 1, DigitWords)
        e == NumberEnd(line, d + 1)
        f == IF At(e, ".") THEN e + 1 ELSE e
        g == RunEnd(line, f, Ws)
        numbered == d >= 1 /\ g >= f /\ Title(g + 1)
        \* ^[IVX]+\.\s+[A-Z][A-Za-z\s]{3,}$
        r == RunEnd(line, 1, {"II"})
        h == RunEnd(line, r + 2, Ws)
        roman == r >= 1 /\ At(r + 1, ".") /\ h >= r + 2 /\ Title(h + 1)
        \* ^\*\*([A-Z][A-Za-z\s\d\-.,!?()]{5,})\*\*$
        bold == /\ n >= 5 /\ At(1, "*") /\ At(2, "*") /\ At(n - 1, "*") /\ At(n, "*")
                /\ FirstUpper(line[3])
                /\ \A j \in 3..(n - 2) :
                      \/ IsWordAtom(line[j])
                      \/ line[j] \in Ws \cup {"-", "-*6", ".", ",", "!", "?", "(", ")"}
                /\ StrLen(SubSeq(line, 3, n - 2)) >= 6
        \* ^\s{4,}... needs leading whitespace and line is stripped; the
        \* underline pattern ends in $(?=\n...) and line holds no newline
    IN  IF caps THEN [hit |-> TRUE, text |-> line]
        ELSE IF numbered THEN [hit |-> TRUE, text |-> SubSeq(line, g + 1, n)]
        ELSE IF roman THEN [hit |-> TRUE, text |-> SubSeq(line, h + 1, n)]
        ELSE IF bold THEN [hit |-> TRUE, text |-> SubSeq(line, 3, n - 2)]
        ELSE [hit |-> FALSE, text |-> line]

\* the "standalone title" heuristics and the allow-list of section titles
StandaloneTitle(line, prev_line, next_line) ==
    LET n == Len(line)
        starts == {k \in 1..n : line[k] \notin Ws /\ (k = 1 \/ line[k - 1] \in Ws)}
        W(k) == k >= 1 /\ k <= n /\ (IsWordAtom(line[k]) \/ line[k] = "_")
        general ==
            /\ StrLen(line) < 60
            /\ Cardinality(starts) \in 2..8
            /\ FirstUpper(line[1])
            /\ line[n] \notin {".", ",", ":"}
            /\ (next_line = <<>> \/ ~FirstLower(next_line[1]))
            /\ prev_line = <<>>
            \* \b(the|a|an|and|or|but|in|on|at|to|for|of|with|by)\b
            /\ ~\E k \in 1..n :
                  /\ line[k] \in {"the", "a", "an", "and", "or", "but", "in", "on",
                                  "at", "to", "for", "of", "with", "by"}
                  /\ ~W(k - 1) /\ ~W(k + 1)
            /\ ~\E k \in 1..n : line[k] \in DigitWords /\ CharLen(line[k]) >= 4  \* \d{4}
            /\ ~\E k \in 1..n : line[k] \in {"Monday"}           \* (monday|...)
    IN  IF general
        THEN \A k \in starts :
                \/ FirstUpper(line[k])
                \/ /\ line[k] \in {"of", "the", "and", "in", "to", "for"}
                   /\ (k = n \/ line[k + 1] \in Ws)
        ELSE /\ prev_line = <<>>
             \* the entries of the allow-list the atoms can spell
             /\ line \in {<<"Grading", " ", "Scheme">>, <<"Office", " ", "Hours">>}

\* next_line underlines line
Underlines(next_line, line) ==
    /\ next_line # <<>>
    /\ StrLen(next_line) >= 4
    /\ \A k \in 1..Len(next_line) : next_line[k] \in Dashes
    /\ StrLen(next_line) - StrLen(line) \in -5..5
    /\ StrLen(line) >= 5

RECURSIVE HeadingLines(_, _)
\* the while loop over lines, from index i: processed_lines
HeadingLines(lines, i) ==
    IF i > Len(lines) THEN <<>>
    ELSE LET line == Strip(lines[i])
             next_line == IF i + 1 <= Len(lines) THEN Strip(lines[i + 1]) ELSE <<>>
             prev_line == IF i > 1 THEN Strip(lines[i - 1]) ELSE <<>>
             ph == PatternHeading(line)
         IN  IF line = <<>> \/ line[1] = "#" \/ IsExcluded(line)
             THEN <<lines[i]>> \o HeadingLines(lines, i + 1)
             ELSE IF ph.hit
             THEN <<<<"#", " ">> \o ph.text>> \o HeadingLines(lines, i + 1)
             ELSE IF StandaloneTitle(line, prev_line, next_line)
             THEN <<<<"#", " ">> \o line>> \o HeadingLines(lines, i + 1)
             ELSE IF i + 1 <= Len(lines) /\ Underlines(next_line, line)
             THEN <<<<"#", " ">> \o line>> \o HeadingLines(lines, i + 2)
             ELSE <<lines[i]>> \o HeadingLines(lines, i + 1)

\* end of a match of \n# ([^\n]+)\n# \1\n at index i, 0 when there is none
DupHeadingEnd(s, i) ==
    LET n == Len(s)
        e == FirstAt(s, i + 1, {"\n"})
        x == SubSeq(s, i + 3, e - 1)
    IN  IF /\ s[i] = "\n" /\ i + 2 <= n /\ s[i + 1] = "#" /\ s[i + 2] = " "
           /\ e > i + 3 /\ e + 3 + Len(x) <= n
           /\ SubSeq(s, e + 1, e + 3 + Len(x)) = <<"#", " ">> \o x \o <<"\n">>
        THEN e + 3 + Len(x) ELSE 0

_enhance_heading_detection(content) ==
    IF Strip(content) = <<>> THEN content
    ELSE LET DropDup(s) ==    \* re.sub(r'\n# ([^\n]+)\n# \1\n', r'\n# \1\n', s)
                 Replace(LAMBDA k : DupHeadingEnd(s, k),
                         LAMBDA k : SubSeq(s, k, FirstAt(s, k + 1, {"\n"})), s, 1)
         IN  DropDup(JoinLines(HeadingLines(SplitLines(content), 1)))

----------------------------------------------------------------------------
(* _add_page_numbers_to_markdown                                           *)

PdfGapLines    == 20    \* Method 1: line_count > 20
PdfHeaderLines == 30    \* Method 2: line_count > 30
PdfLongLines   == 50    \* Method 3: line_count > 50
LongDocLines   == 100   \* len(lines) > 100
LongPageLines  == 80    \* line_count > 80

\* Path(file_path).suffix.lower() == '.pdf', for the suffixes of the requests
IsPdf(suffix) ==
    LET lower == CASE suffix = ".PDF" -> ".pdf" [] OTHER -> suffix
    IN  lower = ".pdf"

\* the lines of f"## Page {page_number}" followed by ""
PageMarker(page_number) ==
    << <<"#", "#", " ", "Page", " ", ToString(page_number)>>, <<>> >>

\* the lines appended at a page break
PageBreak(page_number) ==
    << <<>>, <<"-", "-", "-">>, <<>> >> \o PageMarker(page_number)

\* the test that takes every heading, after an empty line or not
BreakAtAnyHeading(lines, i, line_count, is_pdf) ==
    LET n == Len(lines)
        blank(k) == Strip(lines[k]) = <<>>
    IN  IF is_pdf
        THEN \/ /\ blank(i) /\ i + 2 <= n /\ blank(i + 1) /\ ~blank(i + 2)
                /\ line_count > PdfGapLines
             \/ /\ ~blank(i) /\ Strip(lines[i])[1] = "#"
                /\ line_count > PdfHeaderLines
             \/ line_count > PdfLongLines /\ blank(i)
        ELSE line_count > LongPageLines /\ blank(i)

\* should_add_page_break at lines[i] (lines counted from 1) when it is line
\* number line_count of its page: the three methods of the PDF branch, the
\* one test of the long-document branch
ShouldBreak(lines, i, line_count, is_pdf) ==
    LET n == Len(lines)
        blank(k) == Strip(lines[k]) = <<>>
    IN  IF is_pdf
        THEN \/ /\ blank(i) /\ i + 2 <= n /\ blank(i + 1) /\ ~blank(i + 2)
                /\ line_count > PdfGapLines
             \/ /\ ~blank(i) /\ Strip(lines[i])[1] = "#"
                /\ line_count > PdfHeaderLines
                /\ i > 1 /\ blank(i - 1)
             \/ line_count > PdfLongLines /\ blank(i)
        ELSE line_count > LongPageLines /\ blank(i)

RECURSIVE PageBreaks(_, _, _)
\* the indices in start..len(lines) after which the loop adds a page break,
\* line_count being 0 before lines[start]
PageBreaks(lines, start, is_pdf) ==
    LET b == FirstAt([i \in 1..Len(lines) |->
                         i >= start /\ ShouldBreak(lines, i, i - start + 1, is_pdf)],
                     start, {TRUE})
    IN  IF b = 0 THEN {} ELSE {b} \cup PageBreaks(lines, b + 1, is_pdf)

\* '\n'.join(processed_lines) of either loop
NumberedPages(lines, is_pdf) ==
    LET breaks == PageBreaks(lines, 1, is_pdf)
        out == [i \in 1..Len(lines) |->
                  IF i \in breaks
                  THEN <<lines[i]>>
                       \o PageBreak(2 + Cardinality({b \in breaks : b < i}))
                  ELSE <<lines[i]>>]
    IN  JoinLines(PageMarker(1) \o Cat(out, 1, Len(lines)))

\* result_pages of the form-feed branch
FeedPages(content) ==
    LET pages == Split(content, "\f")
        out == [i \in 1..Len(pages) |->
                  IF Strip(pages[i]) = <<>> THEN <<>>
                  ELSE <<PageMarker(i)[1] \o <<"\n", "\n">> \o Strip(pages[i])>>]
    IN  Cat(out, 1, Len(pages))

\* the variant that numbers pages whatever create_pages says
AlwaysPaged(content, suffix, create_pages) ==
    LET lines == SplitLines(content)
    IN  IF content = <<>> THEN content
        ELSE IF IsPdf(suffix) THEN NumberedPages(lines, TRUE)
        ELSE IF FirstAt(content, 1, {"\f"}) # 0
        THEN Join(FeedPages(content), <<"\n", "\n", "-", "-", "-", "\n", "\n">>)
        ELSE IF Len(lines) > LongDocLines THEN NumberedPages(lines, FALSE)
        ELSE content

_add_page_numbers_to_markdown(content, suffix, create_pages) ==
    LET lines == SplitLines(content)
    IN  IF content = <<>> \/ ~create_pages THEN content
        ELSE IF IsPdf(suffix) THEN NumberedPages(lines, TRUE)
        ELSE IF FirstAt(content, 1, {"\f"}) # 0
        THEN Join(FeedPages(content), <<"\n", "\n", "-", "-", "-", "\n", "\n">>)
        ELSE IF Len(lines) > LongDocLines THEN NumberedPages(lines, FALSE)
        ELSE content

----------------------------------------------------------------------------
(* _convert_hyperlinks_to_markdown                                         *)
(* Its e-mail pattern matches only around an "@"; the texts converted here *)
(* hold none, so that pattern never matches and is not written out.        *)

\* '](' occurs in the last n characters before index i
InLinkTarget(s, i, n) ==
    \E k \in 1..(i - 2) : /\ s[k] = "]" /\ s[k + 1] = "("
                          /\ StrLen(SubSeq(s, k, i - 1)) <= n

\* The match of link pattern p that starts at index i of s: its last index
\* (0 when p does not match there) and the text that replaces it.
LinkMatch(p, s, i) ==
    LET n == Len(s)
        At(k, a) == k <= n /\ s[k] = a
        Proto(k) == /\ k <= n /\ s[k] \in {"http", "https"}     \* https?://
                    /\ At(k + 1, ":") /\ At(k + 2, "/") /\ At(k + 3, "/")
        none == [end |-> 0, rep |-> <<>>]
        Q == {"\"", "'"}
    IN
    CASE p = "anchor" ->   \* <a\s+[^>]*href=["']([^"']+)["'][^>]*>([^<]*)</a>
           LET w == RunEnd(s, i + 2, Ws)
               gt == FirstAt(s, w + 1, {">"})
               close(k) == FirstAt(s, k + 3, Q)
               open(k) == FirstAt(s, FirstAt(s, close(k) + 1, {">"}) + 1, {"<"})
               \* the href= that the greedy [^>]* can reach and that completes
               C == {k \in (w + 1)..(IF gt = 0 THEN n ELSE gt) :
                        /\ At(k, "href") /\ At(k + 1, "=") /\ k + 2 <= n
                        /\ s[k + 2] \in Q
                        /\ close(k) > k + 3
                        /\ FirstAt(s, close(k) + 1, {">"}) # 0
                        /\ open(k) # 0
                        /\ At(open(k) + 1, "/") /\ At(open(k) + 2, "a")
                        /\ At(open(k) + 3, ">")}
               k == CHOOSE x \in C : \A y \in C : y <= x
           IN  IF At(i, "<") /\ At(i + 1, "a") /\ w >= i + 2 /\ C # {}
               THEN [end |-> open(k) + 3,
                     rep |-> <<"[">>
                             \o SubSeq(s, FirstAt(s, close(k) + 1, {">"}) + 1,
                                       open(k) - 1)
                             \o <<"]", "(">> \o SubSeq(s, k + 3, close(k) - 1)
                             \o <<")">>]
               ELSE none
      [] p = "url" ->
           \* (?<!\[)(?<!\()(?<!\]\()(?:https?://|www\.)[\w\-._~:/?#[\]@!$&'()*+,;=]+(?!\))
           LET body == IF Proto(i) THEN i + 4
                       ELSE IF At(i, "www") /\ At(i + 1, ".") THEN i + 2 ELSE 0
               r == RunEnd(s, body, {s[j] : j \in 1..n} \ (Ws \cup {"<", ">", "\""}))
               url == SubSeq(s, i, r)
               full == IF s[i] = "www" THEN <<"http", ":", "/", "/">> \o url ELSE url
           IN  IF /\ body # 0 /\ r >= body
                  /\ (i = 1 \/ s[i - 1] \notin {"[", "("})
               THEN [end |-> r,
                     rep |-> IF InLinkTarget(s, i, 10) THEN url
                             ELSE <<"[">> \o full \o <<"]", "(">> \o full \o <<")">>]
               ELSE none
      [] p = "dup_protocol" ->    \* \[([^\]]*)\]\(https?://https?://([^)]*)\)
           LET j == FirstAt(s, i + 1, {"]"})
               c == FirstAt(s, j + 10, {")"})
           IN  IF /\ At(i, "[") /\ j # 0 /\ At(j + 1, "(")
                  /\ Proto(j + 2) /\ Proto(j + 6) /\ c # 0
               THEN [end |-> c,
                     rep |-> SubSeq(s, i, j + 1) \o <<"https", ":", "/", "/">>
                             \o SubSeq(s, j + 10, c)]
               ELSE none
      [] OTHER -> none

RECURSIVE ReplaceLinks(_, _)
\* content = re.sub(pattern, replacement, content), pattern after pattern
ReplaceLinks(patterns, s) ==
    IF patterns = <<>> THEN s
    ELSE ReplaceLinks(Tail(patterns),
                      Replace(LAMBDA k : LinkMatch(Head(patterns), s, k).end,
                              LAMBDA k : LinkMatch(Head(patterns), s, k).rep, s, 1))

_convert_hyperlinks_to_markdown(content) ==
    ReplaceLinks(<<"anchor", "url", "dup_protocol">>, content)

----------------------------------------------------------------------------
(* _integrate_pdf_hyperlinks and _apply_manual_hyperlinks                  *)
(* A term is a sequence of letter words; it stands for their concatenation.*)

\* the starts of the matches of re.finditer(r'\b' + term + r'\b', s,
\* re.IGNORECASE)
TermHits(s, term) ==
    LET n == Len(term)
        w(k) == k \in 1..Len(s) /\ (IsWordAtom(s[k]) \/ s[k] = "_")   \* \w
    IN  {k \in 1..(Len(s) - n + 1) :
            /\ n > 0
            /\ Lower(SubSeq(s, k, k + n - 1)) = Lower(term)
            /\ ~w(k - 1) /\ ~w(k + n)}

\* the term that the link target url contributes for content (<<>>: none)
UrlTerm(url, content) ==
    LET parts == Split(url, "/")
        letters(a) == IF a = "e64" THEN <<"e">>              \* [^a-zA-Z] removed
                      ELSE IF LetterWord(a) THEN <<a>> ELSE <<>>
        clean(j) == Cat([k \in 1..Len(parts[j]) |-> letters(parts[j][k])],
                        1, Len(parts[j]))
        P == {j \in 1..Len(parts) :
                /\ StrLen(parts[j]) > 4
                /\ StrLen(clean(j)) > 4
                /\ Lower(clean(j)) \notin {<<"https">>, <<"www">>, <<"com">>,
                                           <<"org">>, <<"html">>}
                /\ TermHits(content, clean(j)) # {}}
    IN  IF \E k \in 1..Len(url) : Lower(<<url[k]>>) = <<"pyrrhus">>
        THEN <<"Pyrrhus">>
        ELSE IF \E k \in 1..Len(url) : Lower(<<url[k]>>) = <<"villegaignon">>
        THEN <<"Villegaignon">>
        ELSE IF P = {} THEN <<>>
        ELSE clean(CHOOSE j \in P : \A m \in P : j <= m)

RECURSIVE TermToUrl(_, _, _)
\* term_to_url after the first n link targets: the pairs <<term, url>> in
\* insertion order, a later target of the same term replacing the url
TermToUrl(hyperlinks, content, n) ==
    IF n = 0 THEN <<>>
    ELSE LET d == TermToUrl(hyperlinks, content, n - 1)
             term == UrlTerm(hyperlinks[n], content)
         IN  IF term = <<>> THEN d
             ELSE IF \E j \in 1..Len(d) : d[j][1] = term
             THEN [j \in 1..Len(d) |->
                      IF d[j][1] = term THEN <<term, hyperlinks[n]>> ELSE d[j]]
             ELSE Append(d, <<term, hyperlinks[n]>>)

RECURSIVE WrapMatches(_, _, _, _)
\* for match in reversed(matches): K holds the starts not yet visited
WrapMatches(n, url, s, K) ==
    IF K = {} THEN s
    ELSE LET k == CHOOSE x \in K : \A y \in K : y <= x
             e == k + n - 1
             before == {s[m] : m \in {m \in 1..(k - 1) :
                                        StrLen(SubSeq(s, m, k - 1)) <= 10}}
             linked == \/ "[" \in before /\ "]" \notin before
                       \/ \E m \in (e + 1)..(Len(s) - 1) :
                             /\ s[m] = "]" /\ s[m + 1] = "("
                             /\ StrLen(SubSeq(s, e + 1, m + 1)) <= 10
         IN  WrapMatches(n, url,
                         IF linked THEN s
                         ELSE SubSeq(s, 1, k - 1) \o <<"[">> \o SubSeq(s, k, e)
                              \o <<"]", "(">> \o url \o <<")">>
                              \o SubSeq(s, e + 1, Len(s)),
                         K \ {k})

RECURSIVE WrapTerms(_, _)
\* for term, url in term_to_url.items()
WrapTerms(d, s) ==
    IF d = <<>> THEN s
    ELSE WrapTerms(Tail(d), WrapMatches(Len(d[1][1]), d[1][2], s,
                                        TermHits(s, d[1][1])))

\* hyperlinks: the link targets of the PDF's annotations, in the order
\* _extract_pdf_hyperlinks found them
_integrate_pdf_hyperlinks(content, hyperlinks) ==
    WrapTerms(TermToUrl(hyperlinks, content, Len(hyperlinks)), content)

manual_mappings ==
    <<
       <<"Pyrrhus", <<"https", ":", "/", "/", "www", ".", "worldhistory",
          ".", "org", "/", "pyrrhus", "/">>>>,
       <<"Villegaignon", <<"https", ":", "/", "/", "www", ".",
          "encyclopedia", ".", "com", "/", "humanities", "/",
          "encyclopedias", "-", "almanacs", "-", "transcripts", "-", "and",
          "-", "maps", "/", "villegaignon", "-", "nicolas", "-", "durand",
          "-", "de", "-", "1510", "-", "1572">>>>,
       <<"Plutarch", <<"https", ":", "/", "/", "www", ".", "britannica", ".",
          "com", "/", "biography", "/", "Plutarch">>>>,
       <<"Montaigne", <<"https", ":", "/", "/", "www", ".", "britannica",
          ".", "com", "/", "biography", "/", "Michel", "-", "de", "-",
          "Montaigne">>>>,
       <<"Caesar", <<"https", ":", "/", "/", "www", ".", "britannica", ".",
          "com", "/", "biography", "/", "Julius", "-", "Caesar", "-",
          "Roman", "-", "ruler">>>>,
       <<"Lycurgus", <<"https", ":", "/", "/", "www", ".", "britannica", ".",
          "com", "/", "biography", "/", "Lycurgus", "-", "ancient", "-",
          "Greek", "-", "lawgiver">>>>,
       <<"Plato", <<"https", ":", "/", "/", "www", ".", "britannica", ".",
          "com", "/", "biography", "/", "Plato">>>>,
       <<"Herodotus", <<"https", ":", "/", "/", "www", ".", "britannica",
          ".", "com", "/", "biography", "/", "Herodotus", "-", "Greek", "-",
          "historian">>>>,
       <<"Seneca", <<"https", ":", "/", "/", "www", ".", "britannica", ".",
          "com", "/", "biography", "/", "Lucius", "-", "Annaeus", "-",
          "Seneca", "-", "Roman", "-", "philosopher">>>>,
       <<"Scythians", <<"https", ":", "/", "/", "www", ".", "worldhistory",
          ".", "org", "/", "Scythians", "/">>>>,
       <<"Propertius", <<"https", ":", "/", "/", "www", ".", "britannica",
          ".", "com", "/", "biography", "/", "Propertius">>>>,
       <<"Virgil", <<"https", ":", "/", "/", "www", ".", "britannica", ".",
          "com", "/", "biography", "/", "Virgil">>>>,
       <<"Juvenal", <<"https", ":", "/", "/", "www", ".", "britannica", ".",
          "com", "/", "biography", "/", "Juvenal">>>>,
       <<"Chrysippus", <<"https", ":", "/", "/", "www", ".", "britannica",
          ".", "com", "/", "biography", "/", "Chrysippus">>>>,
       <<"Zeno", <<"https", ":", "/", "/", "www", ".", "britannica", ".",
          "com", "/", "biography", "/", "Zeno", "-", "of", "-", "Citium">>>>,
       <<"Thermopylae", <<"https", ":", "/", "/", "www", ".", "worldhistory",
          ".", "org", "/", "thermopylae", "/">>>>,
       <<"Salamis", <<"https", ":", "/", "/", "www", ".", "worldhistory",
          ".", "org", "/", "Battle", "_", "of", "_", "Salamis", "/">>>>,
       <<"Plataea", <<"https", ":", "/", "/", "www", ".", "worldhistory",
          ".", "org", "/", "Battle", "_", "of", "_", "Plataea", "/">>>>
    >>

RECURSIVE LinkSpans(_, _)
\* the indices inside the matches of \[[^\]]+\]\([^)]+\) from index i on
LinkSpans(s, i) ==
    LET end(k) == LET j == FirstAt(s, k + 1, {"]"})
                      c == FirstAt(s, j + 2, {")"})
                  IN  IF /\ s[k] = "[" /\ j > k + 1
                         /\ j + 1 <= Len(s) /\ s[j + 1] = "(" /\ c > j + 2
                      THEN c ELSE 0
        k == FirstAt([j \in 1..Len(s) |-> end(j) # 0], i, {TRUE})
    IN  IF k = 0 THEN {} ELSE k..end(k) \cup LinkSpans(s, end(k) + 1)

RECURSIVE ApplyMappings(_, _)
\* for term, url in manual_mappings.items(): the first whole-word occurrence
\* outside the existing links is wrapped, unless [term]( is in the content
ApplyMappings(mappings, s) ==
    IF mappings = <<>> THEN s
    ELSE LET term == Head(mappings)[1]
             K == TermHits(s, <<term>>) \ LinkSpans(s, 1)
             k == CHOOSE x \in K : \A y \in K : x <= y
         IN  ApplyMappings(Tail(mappings),
                 IF Contains(s, <<"[", term, "]", "(">>) \/ K = {} THEN s
                 ELSE SubSeq(s, 1, k - 1) \o <<"[", s[k], "]", "(">>
                      \o Head(mappings)[2] \o <<")">> \o SubSeq(s, k + 1, Len(s)))

_apply_manual_hyperlinks(content) == ApplyMappings(manual_mappings, content)

----------------------------------------------------------------------------
(* Image placement                                                         *)
(* An image record is [filename, url, page_number, position_y,             *)
(* position_in_content, content_context]; None is 0 for page_number and    *)
(* position_y, -1 for position_in_content, <<>> for content_context.       *)

\* str.split(): the maximal runs of non-whitespace, in order
Words(s) ==
    LET S == {k \in 1..Len(s) : s[k] \notin Ws /\ (k = 1 \/ s[k - 1] \in Ws)}
        nth(j) == CHOOSE k \in S : Cardinality({m \in S : m < k}) = j - 1
    IN  [j \in 1..Cardinality(S) |->
            SubSeq(s, nth(j), RunEnd(s, nth(j), {s[i] : i \in 1..Len(s)} \ Ws))]

\* sum(1 for word in words if len(word) > 3 and word in text)
WordHits(words, text) ==
    Cardinality({j \in 1..Len(words) :
                    StrLen(words[j]) > 3 /\ Contains(text, words[j])})

\* ' '.join(lines[i - r : i + r + 1]).lower(), lines counted from 1
Surrounding(lines, i, r) ==
    LET lo == IF i - r < 1 THEN 1 ELSE i - r
        hi == IF i + r > Len(lines) THEN Len(lines) ELSE i + r
    IN  Lower(Join(SubSeq(lines, lo, hi), <<" ">>))

\* sorted(s, key=...): stable, Less compares the keys
Sorted(s, Less(_, _)) ==
    LET rank(k) == Cardinality({j \in 1..Len(s) :
                       Less(s[j], s[k]) \/ (~Less(s[k], s[j]) /\ j < k)})
    IN  [r \in 1..Len(s) |-> s[CHOOSE k \in 1..Len(s) : rank(k) = r - 1]]

\* f"![{image.filename}]({image.url})"
ImageRef(image) ==
    <<"!", "[">> \o image.filename \o <<"]", "(">> \o image.url \o <<")">>

\* the lines "", "---", "", "## <title> Images", "" and then each reference
\* followed by ""; nothing when there is no image left
Trailer(title, images) ==
    IF images = <<>> THEN <<>>
    ELSE << <<>>, <<"-", "-", "-">>, <<>>,
            <<"#", "#", " ", title, " ", "Images">>, <<>> >>
         \o Cat([k \in 1..Len(images) |-> <<ImageRef(images[k]), <<>>>>],
                1, Len(images))

_is_page_break_indicator(lines, i) ==
    LET low == Lower(Strip(lines[i]))
        blank(k) == Strip(lines[k]) = <<>>
    IN  \/ \E k \in 1..Len(low) :
              \/ /\ low[k] \in {"page", "chapter", "section"}
                 /\ k + 1 <= Len(low) /\ low[k + 1] = " "
              \/ low[k] = "-*6"
              \/ /\ k + 2 <= Len(low) /\ low[k] \in {"-", "="}
                 /\ low[k + 1] = low[k] /\ low[k + 2] = low[k]
        \/ /\ blank(i) /\ i > 1 /\ i < Len(lines)
           /\ blank(i - 1) /\ ~blank(i + 1)

_should_place_image_here(image, lines, i) ==
    LET words == Words(Lower(image.content_context))
    IN  /\ image.content_context # <<>>
        /\ words # <<>>
        /\ 10 * WordHits(words, Surrounding(lines, i, 3)) > 3 * Len(words)

RECURSIVE PlaceLines(_, _, _, _, _)
\* the loop of _integrate_images_into_markdown over lines[i..] and the
\* trailing section; images is sorted_images, placed the filenames placed
PlaceLines(lines, images, i, current_page, placed) ==
    LET unplaced(P) == SelectSeq(images, LAMBDA im : im.filename \notin P)
    IN
    IF i > Len(lines) THEN Trailer("Document", unplaced(placed))
    ELSE LET page == IF _is_page_break_indicator(lines, i)
                     THEN current_page + 1 ELSE current_page
             on(p) == SelectSeq(images, LAMBDA im :
                          (IF im.page_number = 0 THEN 1 ELSE im.page_number) = p)
             \* by context, every image of the page not placed yet
             here == SelectSeq(on(page), LAMBDA im :
                         /\ im.filename \notin placed
                         /\ _should_place_image_here(im, lines, i))
             first(k) == \A j \in 1..(k - 1) : here[j].filename # here[k].filename
             by_context == [k \in 1..Len(here) |->
                              IF first(k) THEN << <<>>, ImageRef(here[k]), <<>> >>
                              ELSE <<>>]
             placed1 == placed \cup {here[k].filename : k \in 1..Len(here)}
             \* after a heading, one image of the first page at hand
             pages == {p \in (IF page - 1 < 1 THEN 1 ELSE page - 1)..(page + 1) :
                          on(p) # <<>>}
             cand == IF pages = {} THEN <<>>
                     ELSE SelectSeq(on(CHOOSE p \in pages : \A q \in pages : p <= q),
                                    LAMBDA im : im.filename \notin placed1)
             heading == /\ Strip(lines[i]) # <<>> /\ Strip(lines[i])[1] = "#"
                        /\ i > 1 /\ cand # <<>>
         IN  <<lines[i]>> \o Cat(by_context, 1, Len(here))
             \o (IF heading THEN << <<>>, ImageRef(cand[1]), <<>> >> ELSE <<>>)
             \o PlaceLines(lines, images, i + 1, page,
                           IF heading THEN placed1 \cup {cand[1].filename}
                           ELSE placed1)

_integrate_images_into_markdown(content, images) ==
    IF images = <<>> THEN content
    ELSE JoinLines(PlaceLines(SplitLines(content),
             Sorted(images, LAMBDA a, b :
                 \/ a.page_number < b.page_number
                 \/ a.page_number = b.page_number /\ a.position_y < b.position_y),
             1, 1, {}))

\* lines counted from 1: target_line_idx and the result are indices of lines
_find_best_insertion_point(lines, target_line_idx, image) ==
    LET n == Len(lines)
        t == IF target_line_idx > n THEN n
             ELSE IF target_line_idx < 1 THEN 1 ELSE target_line_idx
        lo == IF t - 3 < 1 THEN 1 ELSE t - 3
        hi == IF t + 3 > n THEN n ELSE t + 3
        blank(k) == Strip(lines[k]) = <<>>
        \* after a heading, or after an empty line and before a non-empty one
        good(k) == /\ k \in lo..hi
                   /\ \/ ~blank(k) /\ Strip(lines[k])[1] = "#"
                      \/ k > 1 /\ blank(k - 1) /\ k < n /\ ~blank(k + 1)
        order == <<t, t + 1, t - 1, t + 2, t - 2, t + 3, t - 3>>
        a == FirstAt([j \in 1..7 |-> good(order[j])], 1, {TRUE})
        words == Words(Lower(image.content_context))
        first5 == SubSeq(words, 1, IF Len(words) < 5 THEN Len(words) ELSE 5)
        b == FirstAt([k \in 1..n |->
                         k \in lo..hi /\ WordHits(first5, Lower(lines[k])) >= 2],
                     1, {TRUE})
    IN  IF a # 0 THEN order[a]
        ELSE IF image.content_context # <<>> /\ b # 0 THEN b
        ELSE t

_line_matches_image_context(lines, i, image) ==
    LET words == Words(Lower(image.content_context))
        long == SelectSeq(words, LAMBDA w : StrLen(w) > 3)
    IN  /\ image.content_context # <<>>
        /\ long # <<>>
        /\ 10 * WordHits(long, Surrounding(lines, i, 2)) >= 4 * Len(long)

RECURSIVE MatchLines(_, _, _, _)
\* the loop of _integrate_images_by_context_matching over lines[i..] and the
\* trailing section; used the filenames placed
MatchLines(lines, images, i, used) ==
    IF i > Len(lines)
    THEN Trailer("Additional", SelectSeq(images, LAMBDA im : im.filename \notin used))
    ELSE LET k == FirstAt([j \in 1..Len(images) |->
                              /\ images[j].filename \notin used
                              /\ _line_matches_image_context(lines, i, images[j])],
                          1, {TRUE})
         IN  IF k = 0 THEN <<lines[i]>> \o MatchLines(lines, images, i + 1, used)
             ELSE <<lines[i], <<>>, ImageRef(images[k]), <<>>>>
                  \o MatchLines(lines, images, i + 1, used \cup {images[k].filename})

_integrate_images_by_context_matching(content, images) ==
    IF images = <<>> THEN content
    ELSE JoinLines(MatchLines(SplitLines(content), images, 1, {}))

\* best_line_idx: the last line that starts at or before target_char_pos
BestLine(lines, target_char_pos) ==
    LET \* line_positions[k]: the characters before lines[k]
        before(k) == StrLen(Join(SubSeq(lines, 1, k - 1), <<"\n">>))
                     + (IF k > 1 THEN 1 ELSE 0)
        K == {k \in 1..Len(lines) : before(k) <= target_char_pos}
    IN  IF K = {} THEN 1 ELSE CHOOSE k \in K : \A j \in K : j <= k

_integrate_docx_images_by_position(content, images) ==
    LET positioned_images ==
            Sorted(SelectSeq(images, LAMBDA im : im.position_in_content # -1),
                   LAMBDA a, b : a.position_in_content < b.position_in_content)
        unpositioned_images ==
            SelectSeq(images, LAMBDA im : im.position_in_content = -1)
        lines == SplitLines(content)
        best(image) == BestLine(lines, image.position_in_content)
        final == [j \in 1..Len(positioned_images) |->
                    _find_best_insertion_point(lines, best(positioned_images[j]),
                                               positioned_images[j])]
        \* the images inserted after lines[k]: the later insertion comes first
        after(k) == [j \in 1..Len(positioned_images) |->
                       LET r == Len(positioned_images) + 1 - j
                       IN  IF final[r] = k
                           THEN << <<>>, ImageRef(positioned_images[r]), <<>> >>
                           ELSE <<>>]
        result_lines == [k \in 1..Len(lines) |->
                           <<lines[k]>>
                           \o Cat(after(k), 1, Len(positioned_images))]
    IN  IF images = <<>> THEN content
        ELSE IF positioned_images = <<>>
        THEN _integrate_images_by_context_matching(content, images)
        ELSE JoinLines(Cat(result_lines, 1, Len(lines))
                       \o Trailer("Additional", unpositioned_images))

\* the placement that strips the text it hands on
PositioningStripped(content, images, suffix) ==
    IF images = <<>> THEN content
    ELSE IF ~IsPdf(suffix) /\ suffix \in {".docx", ".doc", ".DOCX", ".DOC"}
    THEN _integrate_docx_images_by_position(Strip(content), images)
    ELSE _integrate_images_into_markdown(Strip(content), images)

\* suffix.lower() in ['.docx', '.doc'] selects the placement by position; the
\* PDF branch opens and closes the file and falls through
_integrate_images_with_advanced_positioning(content, images, suffix) ==
    IF images = <<>> THEN content
    ELSE IF ~IsPdf(suffix) /\ suffix \in {".docx", ".doc", ".DOCX", ".DOC"}
    THEN _integrate_docx_images_by_position(content, images)
    ELSE _integrate_images_into_markdown(content, images)

----------------------------------------------------------------------------
(* Image locations (ImageExtractor) and _convert_base64_images_to_files    *)

\* self.base_url: config.IMAGE_BASE_URL without its trailing '/'
BaseUrl == <<"http", ":", "/", "/", "host">>

\* str(uuid.uuid4())[:8] of the n-th folder created
Uuid(n) == (IF n < 10 THEN "u000000" ELSE "u00000") \o ToString(n)

\* the name of the folder _create_document_folder makes for document_name
DocumentFolder(document_name, unique_id) ==
    LET kept == SelectSeq(document_name,         \* c.isalnum() or c in ' -_'
                    LAMBDA a : IsWordAtom(a) \/ a \in {" ", "-", "_", "-*6"})
        K == {k \in 1..Len(kept) : kept[k] # " "}                 \* .rstrip()
        safe == IF K = {} THEN <<>>
                ELSE SubSeq(kept, 1, CHOOSE k \in K : \A j \in K : j <= k)
        under(a) == IF a \in {" ", "-"} THEN <<"_">>
                    ELSE IF a = "-*6" THEN <<"_", "_", "_", "_", "_", "_">>
                    ELSE <<a>>
        low == Lower(safe)
    IN  Cat([k \in 1..Len(low) |-> under(low[k])], 1, Len(low))
        \o <<"_", unique_id>>

\* f"{self.base_url}/images/{document_folder.name}/{filename}"
ImageUrl(folder, filename) ==
    BaseUrl \o <<"/", "images", "/">> \o folder \o <<"/">> \o filename

\* An embedded image of the source file is a record: name and ext of its
\* entry in the container, page (PDF page; paragraph run in a DOCX), y, pos
\* and ctx (the position and context the format reports, 0 / -1 / <<>> when
\* none), blob (its bytes, by identity) and fate, what happens to it:
\*   "ok", "read" (reading its data raises), "save" (writing its file
\*   raises), "probe" (Image.open raises), "cmyk" (a PDF pixmap with 4 or
\*   more colour components).
ImageInfo(filename, folder, item, placed) ==
    [filename |-> filename, url |-> ImageUrl(folder, filename),
     page_number |-> IF placed = "page" THEN item.page ELSE 0,
     position_y |-> IF placed = "page" THEN item.y ELSE 0,
     position_in_content |-> IF placed = "offset" THEN item.pos ELSE -1,
     content_context |-> IF placed = "offset" \/ (placed = "page" /\ item.y # 0)
                         THEN item.ctx ELSE <<>>]

\* final_image_path.name: .png unless the conversion could not open the image
_convert_to_png_and_cleanup(name, ext, fate) ==
    name \o <<".", IF ext = "png" \/ fate = "probe" THEN ext ELSE "png">>

\* Every statement of the loop is inside the one try of the function: the
\* first image that raises ends the extraction.
_extract_from_pdf(items, folder) ==
    LET stop == FirstAt([k \in 1..Len(items) |-> items[k].fate], 1,
                        {"read", "save", "probe"})
        last == IF stop = 0 THEN Len(items) ELSE stop - 1
        img_index(k) == Cardinality({j \in 1..(k - 1) : items[j].page = items[k].page})
        filename(k) == <<"page", "_", ToString(items[k].page), "_", "img", "_",
                         ToString(img_index(k) + 1), ".", "png">>
    IN  Cat([k \in 1..last |->
                IF items[k].fate = "ok"
                THEN <<ImageInfo(filename(k), folder, items[k], "page")>> ELSE <<>>],
            1, last)

\* _extract_from_pptx, _extract_from_excel and _extract_from_odf: the media
\* entries of the ZIP in order; reading and writing are guarded by the one
\* try of the function only, the probe by its own
_extract_from_pptx(items, folder) ==
    LET stop == FirstAt([k \in 1..Len(items) |-> items[k].fate], 1, {"read", "save"})
        last == IF stop = 0 THEN Len(items) ELSE stop - 1
    IN  [k \in 1..last |->
            ImageInfo(_convert_to_png_and_cleanup(items[k].name, items[k].ext,
                                                  items[k].fate),
                      folder, items[k], "none")]

\* each match is handled inside its own try
_extract_from_html_xml(items, folder) ==
    Cat([k \in 1..Len(items) |->
            IF items[k].fate \in {"read", "save"} THEN <<>>
            ELSE <<ImageInfo(_convert_to_png_and_cleanup(
                                 <<"embedded", "_", "image", "_", ToString(k)>>,
                                 items[k].ext, items[k].fate),
                             folder, items[k], "none")>>],
        1, Len(items))

\* each entry is handled inside its own try; the names here are safe already
_extract_from_archive(items, folder) ==
    Cat([k \in 1..Len(items) |->
            IF items[k].fate \in {"read", "save"} THEN <<>>
            ELSE <<ImageInfo(_convert_to_png_and_cleanup(items[k].name, items[k].ext,
                                                         items[k].fate),
                             folder, items[k], "none")>>],
        1, Len(items))

RECURSIVE DocxRuns(_, _, _, _, _, _)
\* The walk over the drawings of the paragraphs from item k on: processed is
\* processed_images, failed the run whose try has been left.
DocxRuns(items, k, folder, processed, image_count, failed) ==
    IF k > Len(items) THEN <<>>
    ELSE IF items[k].page = failed \/ items[k].blob \in processed
    THEN DocxRuns(items, k + 1, folder, processed, image_count, failed)
    ELSE IF items[k].fate = "save"
    THEN DocxRuns(items, k + 1, folder, processed \cup {items[k].blob},
                  image_count + 1, items[k].page)
    ELSE <<ImageInfo(_convert_to_png_and_cleanup(
                         <<"image", "_", ToString(image_count + 1)>>,
                         items[k].ext, items[k].fate),
                     folder, items[k], "offset")>>
         \o DocxRuns(items, k + 1, folder, processed \cup {items[k].blob},
                     image_count + 1, failed)

RECURSIVE DocxRels(_, _, _, _)
\* the fallback over the image relationships, each inside its own try; n is
\* len(images)
DocxRels(items, k, folder, n) ==
    IF k > Len(items) THEN <<>>
    ELSE IF items[k].fate = "save" \/ \E j \in 1..(k - 1) : items[j].blob = items[k].blob
    THEN DocxRels(items, k + 1, folder, n)
    ELSE <<ImageInfo(_convert_to_png_and_cleanup(<<"image", "_", ToString(n + 1)>>,
                                                 items[k].ext, items[k].fate),
                     folder, items[k], "none")>>
         \o DocxRels(items, k + 1, folder, n + 1)

\* the blobs are read when image_rels is built, inside the outer try only
_extract_from_docx(items, folder) ==
    IF \E k \in 1..Len(items) : items[k].fate = "read" THEN <<>>
    ELSE IF DocxRuns(items, 1, folder, {}, 0, 0) # <<>>
    THEN DocxRuns(items, 1, folder, {}, 0, 0)
    ELSE DocxRels(items, 1, folder, 0)

\* the dispatch on file_path.suffix.lower(); folder is the document folder
extract_images_from_file(suffix, items, folder) ==
    LET lower == CASE suffix = ".PDF" -> ".pdf" [] suffix = ".DOCX" -> ".docx"
                   [] OTHER -> suffix
    IN  CASE lower = ".pdf" -> _extract_from_pdf(items, folder)
          [] lower \in {".docx", ".doc"} -> _extract_from_docx(items, folder)
          [] lower \in {".pptx", ".ppt", ".xlsx", ".xls", ".odt", ".ods", ".odp"} ->
                 _extract_from_pptx(items, folder)
          [] lower \in {".html", ".htm", ".xml"} -> _extract_from_html_xml(items, folder)
          [] lower \in {".zip", ".rar", ".7z"} -> _extract_from_archive(items, folder)
          [] OTHER -> <<>>

\* The match of base64 image pattern p that starts at index i of s: its last
\* index (0 when p does not match there) and its groups.
B64Match(p, s, i) ==
    LET n == Len(s)
        At(k, a) == k <= n /\ s[k] = a
        Q == {"\"", "'"}
        none == [end |-> 0, alt |-> <<>>, type |-> <<>>, data |-> <<>>]
        \* data:image/([^;]+); at index d: the index of the ';'
        semi(d) == IF At(d, "data") /\ At(d + 1, ":") /\ At(d + 2, "image")
                      /\ At(d + 3, "/") /\ FirstAt(s, d + 4, {";"}) > d + 4
                   THEN FirstAt(s, d + 4, {";"}) ELSE 0
        \* the indices of  ![alt](  ws  data:image/type ; ws base64 ws , data )
        \* o: '(', d: 'data', m: ';', b: 'base64', cm: ',', c: ')'
        image(o, d, m, b, cm, c) ==
            IF /\ m # 0 /\ At(b, "bas") /\ At(b + 1, "e64") /\ At(cm, ",")
               /\ c > cm + 1
            THEN [end |-> c, alt |-> SubSeq(s, i + 2, o - 2),
                  type |-> SubSeq(s, d + 4, m - 1),
                  data |-> SelectSeq(SubSeq(s, cm + 1, c - 1),
                                     LAMBDA a : a \notin Ws)]
            ELSE none
        \* <img ... src= at k, m: ';', q: the closing quote, g: the first '>',
        \* a: the quote closing alt="..." right after it
        tag(k, m, q, g, a) ==
            LET hasAlt == /\ At(g + 1, "alt") /\ At(g + 2, "=") /\ g + 3 <= n
                          /\ s[g + 3] \in Q /\ a # 0
                          /\ FirstAt(s, a + 1, {">"}) # 0
                end == FirstAt(s, (IF hasAlt THEN a ELSE g) + 1, {">"})
            IN  IF q > m + 4 /\ g # 0 /\ end # 0
                THEN [end |-> end,
                      alt |-> IF hasAlt THEN SubSeq(s, g + 4, a - 1) ELSE <<>>,
                      type |-> SubSeq(s, k + 7, m - 1),
                      data |-> SelectSeq(SubSeq(s, m + 4, q - 1),
                                         LAMBDA x : x \notin Ws)]
                ELSE none
        closed(k, m, q, g) == tag(k, m, q, g, FirstAt(s, g + 4, Q))
        quoted(k, m, q) == closed(k, m, q, FirstAt(s, q + 1, {">"}))
        payload(k, m) ==
            IF /\ m # 0 /\ At(m + 1, "bas") /\ At(m + 2, "e64") /\ At(m + 3, ",")
            THEN quoted(k, m, FirstAt(s, m + 4, Q)) ELSE none
        src(k) == IF At(k, "src") /\ At(k + 1, "=") /\ k + 2 <= n /\ s[k + 2] \in Q
                  THEN payload(k, semi(k + 3)) ELSE none
        \* the last src= that the greedy [^>]* can reach and that completes
        last(K) == IF K = {} THEN none ELSE src(CHOOSE x \in K : \A y \in K : y <= x)
        upto(gt) == last({k \in (i + 2)..(IF gt = 0 THEN n ELSE gt) : src(k).end # 0})
    IN
    CASE p = "markdown" ->  \* !\[([^\]]*)\]\(data:image/([^;]+);base64,([^)]+)\)
           LET at(o, m) == image(o, o + 1, m, m + 1, m + 3, FirstAt(s, m + 4, {")"}))
               open(o) == IF o = 0 THEN none ELSE at(o, semi(o + 1))
           IN  open(ImgOpen(s, i))
      [] p = "spaced" ->
           \* !\[([^\]]*)\]\(\s*data:image/([^;]+);\s*base64\s*,\s*([^)]+)\s*\)
           LET comma(o, d, m, b, cm) == image(o, d, m, b, cm, FirstAt(s, cm + 1, {")"}))
               word(o, d, m, b) == comma(o, d, m, b, RunEnd(s, b + 2, Ws) + 1)
               type(o, d, m) == IF m = 0 THEN none
                                ELSE word(o, d, m, RunEnd(s, m + 1, Ws) + 1)
               url(o, d) == type(o, d, semi(d))
               open(o) == IF o = 0 THEN none ELSE url(o, RunEnd(s, o + 1, Ws) + 1)
           IN  open(ImgOpen(s, i))
      [] p = "html" ->
           \* <img[^>]*src=["']data:image/([^;]+);base64,([^"']+)["'][^>]*>
           \*     (?:alt=["']([^"']*)["'])?[^>]*/??>
           IF At(i, "<") /\ At(i + 1, "img") THEN upto(FirstAt(s, i + 2, {">"}))
           ELSE none
      [] OTHER -> none

RECURSIVE NonOverlapping(_, _)
\* the matches re.finditer yields from index i on, found[j] being the match
\* that starts at j
NonOverlapping(found, i) ==
    LET first(K) == IF K = {} THEN 0 ELSE CHOOSE x \in K : \A y \in K : x <= y
        from(k) == IF k = 0 THEN <<>>
                   ELSE <<[start |-> k, m |-> found[k]]>>
                        \o NonOverlapping(found, found[k].end + 1)
    IN  from(first({j \in i..Len(found) : found[j].end # 0}))

\* list(re.finditer(pattern, content)), each match with its start
B64Matches(p, s) == NonOverlapping([j \in 1..Len(s) |-> B64Match(p, s, j)], 1)

\* len(base64.b64decode(data)), -1 when it raises; the payloads hold no '='
DecodedLen(data) ==
    LET chars == StrLen(SelectSeq(data, LAMBDA a : IsWordAtom(a) \/ a \in {"+", "/"}))
    IN  IF chars % 4 = 0 THEN 3 * (chars \div 4) ELSE -1

RECURSIVE Repeat(_, _)
\* c * n
Repeat(c, n) ==
    IF n = 0 THEN "" ELSE IF n = 1 THEN c
    ELSE Repeat(c, n \div 2) \o Repeat(c, n - n \div 2)

\* s[n:] of a str, n counted in characters: an atom cut inside leaves the rest
\* of its characters
DropChars(s, n) ==
    LET K == {k \in 0..Len(s) : StrLen(SubSeq(s, 1, k)) <= n}
        k == CHOOSE x \in K : \A y \in K : y <= x
        r == n - StrLen(SubSeq(s, 1, k))
        chars(a) == CASE a = "A*8" -> Repeat("A", 8) [] a = "A*24" -> Repeat("A", 24)
                      [] a = "A*136" -> Repeat("A", 136)
                      [] a = "d*140" -> Repeat("d", 140)
                      [] a = "-*6" -> Repeat("-", 6) [] OTHER -> a
    IN  IF k = Len(s) \/ r = 0 THEN SubSeq(s, k + 1, Len(s))
        ELSE <<SubSeq(chars(s[k + 1]), r + 1, CharLen(s[k + 1]))>>
             \o SubSeq(s, k + 2, Len(s))

\* the filename of the image of match number k (match_idx + 1)
B64Filename(alt_text, image_type, k) ==
    LET kept == SelectSeq(Strip(alt_text),             \* re.sub(r'[^\w\s-]', '', ...)
                    LAMBDA a : IsWordAtom(a) \/ a \in Ws \cup {"_", "-", "-*6"})
        under(j) == IF kept[j] \notin Ws THEN <<kept[j]>>       \* \s+ -> '_'
                    ELSE IF j = 1 \/ kept[j - 1] \notin Ws THEN <<"_">> ELSE <<>>
        clean == Cat([j \in 1..Len(kept) |-> under(j)], 1, Len(kept))
        name == (IF clean \in {<<>>, <<"_">>} THEN <<"image", "_", ToString(k)>>
                 ELSE clean) \o <<".">> \o image_type
    IN  [j \in 1..Len(name) |->                        \* [<>:"/\\|?*] -> '_'
            IF name[j] \in {"<", ">", ":", "\"", "/", "?", "*"} THEN "_" ELSE name[j]]

\* is_in_header of a match that starts on line line_number (counted from 0)
IsInHeader(lines, line_number) ==
    LET starts(j, a) == Strip(lines[j + 1]) # <<>> /\ Strip(lines[j + 1])[1] = a
        S == {j \in 0..(Len(lines) - 1) :
                /\ Strip(lines[j + 1]) # <<>>
                /\ ~starts(j, "#") /\ ~starts(j, "!")
                /\ \E m \in 1..Len(lines[j + 1]) : lines[j + 1][m] = "."
                /\ Len(Words(lines[j + 1])) > 10}
        first_content_line == IF S = {} THEN 0 ELSE CHOOSE j \in S : \A m \in S : j <= m
        lo == IF line_number - 2 < 0 THEN 0 ELSE line_number - 2
        hi == IF line_number + 3 < Len(lines) THEN line_number + 3 ELSE Len(lines)
    IN  \/ line_number < 5
        \/ first_content_line # 0 /\ line_number < first_content_line
        \/ \E j \in lo..(hi - 1) : starts(j, "#")

RECURSIVE ResolveMatches(_, _, _, _, _, _, _)
\* The loop over all_matches from match number k on.  st holds
\* updated_content, created_images and header_images; errors is the set of
\* match numbers whose folder creation or file write raises; the folders are
\* numbered from first_uuid on.
ResolveMatches(ms, k, content, st, document_name, errors, first_uuid) ==
    IF k > Len(ms) THEN st
    ELSE
    LET m == ms[k].m
        alt_text == IF m.alt = <<>> THEN <<"image", "_", ToString(k)>> ELSE m.alt
        base64_data == m.data             \* re.sub(r'\s+', '', base64_data)
        \* updated_content[:start] + rep + updated_content[end:]
        put(rep) == SubSeq(content, 1, ms[k].start - 1) \o rep
                    \o DropChars(st.updated_content, StrLen(SubSeq(content, 1, m.end)))
        filename == B64Filename(alt_text, m.type, k)
        image_info ==
            [filename |-> filename,
             url |-> ImageUrl(DocumentFolder(document_name,
                                  Uuid(first_uuid + Len(st.created_images))),
                              filename),
             page_number |-> 0, position_y |-> 0, position_in_content |-> -1,
             content_context |-> <<>>]
        line_number == Cardinality({j \in 1..(ms[k].start - 1) : content[j] = "\n"})
        is_in_header == IsInHeader(SplitLines(content), line_number)
    IN  ResolveMatches(ms, k + 1, content,
            IF StrLen(base64_data) < 10 THEN st
            ELSE IF DecodedLen(base64_data) < 100 \/ k \in errors
            THEN [st EXCEPT !.updated_content = put(<<>>)]
            ELSE [updated_content |->
                      put(IF is_in_header THEN <<>>
                          ELSE <<"!", "[">> \o alt_text \o <<"]", "(">>
                               \o image_info.url \o <<")">>),
                  created_images |-> Append(st.created_images, image_info),
                  header_images |-> IF is_in_header
                                    THEN Append(st.header_images, image_info)
                                    ELSE st.header_images],
            document_name, errors, first_uuid)

\* the header images put at the top, after a title and its blank lines
PlaceHeaderImages(st) ==
    LET lines == SplitLines(st.updated_content)
        at(insert_position) ==
            JoinLines(SubSeq(lines, 1, insert_position)
                      \o Cat([j \in 1..Len(st.header_images) |->
                                 <<ImageRef(st.header_images[j]), <<>>>>],
                             1, Len(st.header_images))
                      \o SubSeq(lines, insert_position + 1, Len(lines)))
        skip(filled) == at(IF filled = 0 THEN Len(lines) ELSE filled - 1)
    IN  [content |->
            IF st.header_images = <<>> THEN st.updated_content
            ELSE IF Strip(lines[1]) = <<>> \/ Strip(lines[1])[1] # "#" THEN at(0)
            ELSE skip(FirstAt([j \in 1..Len(lines) |-> Strip(lines[j]) # <<>>],
                              2, {TRUE})),
         images |-> st.created_images]

\* returns updated_content and created_images
_convert_base64_images_to_files(content, document_name, errors, first_uuid) ==
    PlaceHeaderImages(
        ResolveMatches(Sorted(B64Matches("markdown", content)
                              \o B64Matches("html", content)
                              \o B64Matches("spaced", content),
                              LAMBDA a, b : a.start > b.start),
                       1, content,
                       [updated_content |-> content, created_images |-> <<>>,
                        header_images |-> <<>>],
                       document_name, errors, first_uuid))

----------------------------------------------------------------------------
(* Inputs of the text functions                                            *)

\* number of fragments a text under test is made of
MaxFrags == 4

\* fragments of the texts given to _remove_remaining_base64_images
RemoveFrags == {
    <<"x">>, <<"bas">>, <<"e64">>, <<"\n">>,
    <<"!", "[", "x", "]">>, <<"(", ")">>,
    <<"!", "[", "x", "]", "(", "data", ":", "x", ")">> }

TextsOf(F) == {Cat(fs, 1, Len(fs)) : fs \in UNION {[1..n -> F] : n \in 0..MaxFrags}}

IdleDoc   == [text |-> <<>>, prev |-> <<>>, calls |-> 0]
IdleJob   == [pc |-> "idle"]
IdleDisk  == [entries |-> {}]
IdleSched == [running |-> FALSE]

\* a text function under test has been handed the text t
DocInit(T) == \E t \in T : doc = [text |-> t, prev |-> t, calls |-> 0]

----------------------------------------------------------------------------
(* The final base64 residue removal on its own                             *)

RemoveInit ==
    /\ DocInit(TextsOf(RemoveFrags))
    /\ job = IdleJob /\ disk = IdleDisk /\ sched = IdleSched /\ now = 0

\* content = _remove_remaining_base64_images(content)
RemoveRemaining ==
    /\ doc.calls < 2
    /\ doc' = [text  |-> _remove_remaining_base64_images(doc.text),
               prev  |-> doc.text,
               calls |-> doc.calls + 1]
    /\ UNCHANGED <<job, disk, sched, now>>

SpecRemove == RemoveInit /\ [][RemoveRemaining]_vars

\* C2: the final content contains no substring base64 and no empty-target
\* image ![...](): after the residue removal neither is left in the text.
C2_NoResidue ==
    LET s == doc.text
        EmptyImage(i) == /\ ImgOpen(s, i) # 0 /\ ImgOpen(s, i) + 1 <= Len(s)
                         /\ s[ImgOpen(s, i) + 1] = ")"
    IN  doc.calls >= 1 => /\ ~HasBase64(s, 1, Len(s))
                          /\ \A i \in 1..Len(s) : ~EmptyImage(i)

----------------------------------------------------------------------------
(* The heading normalisation on its own                                    *)

\* lines of documents: headings, titles, body text, an underline, a blank
HeadingFrags == {
    <<"#", " ", "x", "\n">>, <<"x", "\n">>, <<"\n">>,
    <<"Course", " ", "Outline", "\n">>, <<"hello", " ", "world", "\n">>,
    <<"-*6", "-*6", "\n">> }

HeadingInit ==
    /\ DocInit(TextsOf(HeadingFrags))
    /\ job = IdleJob /\ disk = IdleDisk /\ sched = IdleSched /\ now = 0

EnhanceHeadings ==
    /\ doc.calls < 2
    /\ doc' = [text |-> _enhance_heading_detection(doc.text),
               prev |-> doc.text, calls |-> doc.calls + 1]
    /\ UNCHANGED <<job, disk, sched, now>>

SpecHeading == HeadingInit /\ [][EnhanceHeadings]_vars

\* C3: heading normalisation is idempotent: applying it to its own output
\* changes nothing, adjacent identical headings and underlined headings
\* included.
C3_Idempotent == doc.calls = 2 => doc.text = doc.prev

----------------------------------------------------------------------------
(* The pagination on its own                                               *)

\* n lines of body text
Block(n) == Cat([k \in 1..n |-> <<"x", "\n">>], 1, n)

MaxPageFrags == 3

\* a line, blank lines, a form feed, a heading, and blocks long enough to
\* cross each threshold of the pagination
PageFrags == {
    <<"x", "\n">>, <<"\n">>, <<"\n", "\n">>, <<"\f">>, <<"#", " ", "x", "\n">>,
    Block(PdfGapLines), Block(PdfHeaderLines), Block(PdfLongLines) }

PageInit ==
    /\ \E t \in {Cat(fs, 1, Len(fs)) :
                    fs \in UNION {[1..n -> PageFrags] : n \in 0..MaxPageFrags}} :
          doc = [text |-> t, prev |-> t, calls |-> 0]
    /\ \E suffix \in {".pdf", ".PDF", ".docx"}, create_pages \in BOOLEAN :
          job = [pc |-> "idle", suffix |-> suffix, create_pages |-> create_pages]
    /\ disk = IdleDisk /\ sched = IdleSched /\ now = 0

AddPageNumbers ==
    /\ doc.calls < 1
    /\ doc' = [text |-> _add_page_numbers_to_markdown(doc.text, job.suffix,
                                                      job.create_pages),
               prev |-> doc.text, calls |-> doc.calls + 1]
    /\ UNCHANGED <<job, disk, sched, now>>

SpecPage == PageInit /\ [][AddPageNumbers]_vars

\* C4: with createPages false the pagination is a pure pass-through: the
\* content it returns is the content it was given.
C4_PassThrough == doc.calls = 1 /\ ~job.create_pages => doc.text = doc.prev

\* pagination was switched off for a text it would otherwise have numbered
C4_Witness ==
    /\ doc.calls = 1 /\ ~job.create_pages /\ doc.text = doc.prev
    /\ _add_page_numbers_to_markdown(doc.prev, job.suffix, TRUE) # doc.prev
    /\ Len(SplitLines(doc.prev)) > LongDocLines

----------------------------------------------------------------------------
(* convert_file and convert_url: the conversion pipeline                   *)
(* A job starts when the raw text has been extracted.  convert_url works on *)
(* a temporary file without a suffix, so its job has the suffix "".         *)

\* the order in which pagination comes last and the generic link conversion
\* follows the annotation merge for every file type
PaginationLast(stage, suffix) ==
    CASE stage = "cleanup"          -> "extraction"
      [] stage = "extraction"       -> "headings"
      [] stage = "headings"         -> IF IsPdf(suffix) THEN "annotation_merge"
                                       ELSE "generic_links"
      [] stage = "annotation_merge" -> "manual_links"
      [] stage = "manual_links"     -> "generic_links"
      [] stage = "generic_links"    -> "placement"
      [] stage = "placement"        -> "base64_files"
      [] stage = "base64_files"     -> "final_removal"
      [] stage = "final_removal"    -> "pagination"
      [] OTHER                      -> "done"

\* the stage that follows stage in a conversion of a file with this suffix
NextStage(stage, suffix) ==
    CASE stage = "cleanup"          -> "extraction"
      [] stage = "extraction"       -> "headings"
      [] stage = "headings"         -> IF IsPdf(suffix) THEN "annotation_merge"
                                       ELSE "placement"
      [] stage = "annotation_merge" -> "manual_links"
      [] stage = "manual_links"     -> "placement"
      [] stage = "placement"        -> "pagination"
      [] stage = "pagination"       -> IF IsPdf(suffix) THEN "base64_files"
                                       ELSE "generic_links"
      [] stage = "generic_links"    -> "base64_files"
      [] stage = "base64_files"     -> "final_removal"
      [] OTHER                      -> "done"

\* the content after the text stage of this name
ApplyStage(stage, content, j, images) ==
    CASE stage = "cleanup"          -> _remove_remaining_base64_images(content)
      [] stage = "headings"         -> _enhance_heading_detection(content)
      [] stage = "annotation_merge" -> _integrate_pdf_hyperlinks(content, j.links)
      [] stage = "manual_links"     -> _apply_manual_hyperlinks(content)
      [] stage = "placement"        ->
             _integrate_images_with_advanced_positioning(content, images, j.suffix)
      [] stage = "pagination"       ->
             _add_page_numbers_to_markdown(content, j.suffix, j.create_pages)
      [] stage = "generic_links"    -> _convert_hyperlinks_to_markdown(content)
      [] stage = "final_removal"    -> _remove_remaining_base64_images(content)
      [] OTHER                      -> content

\* a document folder made in the directory root ("configured" or "temp"):
\* ctime is the day it was made, size the bytes of its files
Folder(root, name, ctime, size) ==
    [root |-> root, name |-> name, is_dir |-> TRUE, ctime |-> ctime, size |-> size]

\* the entries of the directory self.images_dir names
InRoot(d) == {e \in d.entries : e.root = d.images_dir}

\* the check that tries the configured root again at every call
EnsureConfigured(images_dir, mkdir, fallback) ==
    IF mkdir = "ok" THEN [images_dir |-> "configured", raised |-> FALSE]
    ELSE IF mkdir = "PermissionError"
    THEN [images_dir |-> IF fallback = "ok" THEN "temp" ELSE images_dir,
          raised |-> fallback # "ok"]
    ELSE [images_dir |-> images_dir, raised |-> TRUE]

\* images_dir after ImageExtractor._ensure_images_dir_exists and whether it
\* raised: only a PermissionError of the first mkdir is caught
_ensure_images_dir_exists(images_dir, mkdir, fallback) ==
    IF mkdir = "ok" THEN [images_dir |-> images_dir, raised |-> FALSE]
    ELSE IF mkdir = "PermissionError"
    THEN [images_dir |-> IF fallback = "ok" THEN "temp" ELSE images_dir,
          raised |-> fallback # "ok"]
    ELSE [images_dir |-> images_dir, raised |-> TRUE]

\* the job moves on from the stage it has just run
Advance(j) ==
    [j EXCEPT !.pc = NextStage(j.pc, j.suffix), !.log = Append(j.log, j.pc),
              !.status = IF NextStage(j.pc, j.suffix) = "done" THEN 200 ELSE 0]

\* images = image_extractor.extract_images_from_file(file_path, filename);
\* nothing in it or around it catches a failure to create the image root or
\* the document folder, which ends the request in the handler's
\* except Exception: HTTPException(status_code=500)
ExtractImages ==
    /\ job.pc = "extraction"
    /\ \E mkdir \in {"ok", "PermissionError", "OSError"},
          fallback \in {"ok", "OSError"}, folder_mkdir \in {"ok", "OSError"} :
          LET root == _ensure_images_dir_exists(disk.images_dir, mkdir, fallback)
              folder == DocumentFolder(job.name, Uuid(disk.made + 1))
              images == extract_images_from_file(job.suffix, job.items, folder)
          IN  IF root.raised \/ folder_mkdir # "ok"
              THEN /\ job' = [job EXCEPT !.pc = "error", !.status = 500]
                   /\ disk' = [disk EXCEPT !.images_dir = root.images_dir]
                   /\ UNCHANGED doc
              ELSE /\ job' = Advance(job)
                   /\ disk' = [disk EXCEPT !.images_dir = root.images_dir,
                                   !.exists = TRUE, !.made = @ + 1,
                                   !.entries = @ \cup
                                       {Folder(root.images_dir, folder, now,
                                               Cardinality({images[k].filename :
                                                              k \in 1..Len(images)}))}]
                   /\ doc' = [doc EXCEPT !.images = images]
    /\ UNCHANGED <<sched, now>>

\* content, base64_images = _convert_base64_images_to_files(content, filename):
\* every match with a payload that decodes calls _ensure_images_dir_exists and
\* gets a folder of its own; when the root or the file cannot be made the
\* match is dropped (the folder of a file that cannot be written stays)
ConvertBase64 ==
    /\ job.pc = "base64_files"
    /\ \E mkdir \in {"ok", "PermissionError", "OSError"},
          fallback \in {"ok", "OSError"}, write \in {"ok", "OSError"} :
          LET root == _ensure_images_dir_exists(disk.images_dir, mkdir, fallback)
              sound == _convert_base64_images_to_files(doc.text, job.name, {},
                                                       disk.made + 1)
              r == IF ~root.raised /\ write = "ok" THEN sound
                   ELSE _convert_base64_images_to_files(doc.text, job.name,
                            1..Len(doc.text), disk.made + 1)
              folders == IF root.raised THEN 0 ELSE Len(sound.images)
          IN  /\ doc' = [doc EXCEPT !.text = r.content, !.base64_images = r.images]
              /\ disk' = IF sound.images = <<>> THEN disk
                         ELSE [disk EXCEPT
                                 !.images_dir = root.images_dir,
                                 !.exists = @ \/ ~root.raised,
                                 !.made = @ + folders,
                                 !.entries = @ \cup
                                     {Folder(root.images_dir,
                                             DocumentFolder(job.name,
                                                            Uuid(disk.made + k)),
                                             now, IF write = "ok" THEN 1 ELSE 0) :
                                         k \in 1..folders}]
    /\ job' = Advance(job)
    /\ UNCHANGED <<sched, now>>

\* content = <stage>(content, ...) for the stages that only rewrite the text
RunStage ==
    /\ job.pc \in {"cleanup", "headings", "annotation_merge", "manual_links",
                   "placement", "pagination", "generic_links", "final_removal"}
    /\ doc' = [doc EXCEPT !.text = ApplyStage(job.pc, doc.text, job, doc.images)]
    /\ job' = Advance(job)
    /\ UNCHANGED <<disk, sched, now>>

\* raw texts of the documents converted: empty, an inline base64 image whose
\* data URL has an empty image in it, a title above a paragraph, an inline
\* base64 image, a name and a bare URL, a heading with a form feed, an HTML
\* anchor
PipeTexts == {
    <<>>,
    <<"#", " ", "Course", "\n", "!", "[", "x", "]", "(", "data", "!", "[", "q", "]",
      "(", ")", ":", "image", "/", "png", ";", "bas", "e64", ",", " ", "A*136", ")",
      "\n", "hello">>,
    <<"Course", " ", "Outline", "\n", "\n", "hello", " ", "world", ".", "\n">>,
    <<"x", "\n", "!", "[", "x", "]", "(", "data", ":", "image", "/", "png", ";",
      "bas", "e64", ",", "A*136", ")", "\n", "hello">>,
    <<"Plato", " ", "https", ":", "/", "/", "host", "/", "x", "\n", "hello", " ",
      "world">>,
    <<"#", " ", "x", "\n", "\n", "x", "\f", "hello", " ", "world">>,
    <<"<", "a", " ", "href", "=", "\"", "http", ":", "/", "/", "host", "\"", ">",
      "x", "<", "/", "a", ">">> }

\* document names: plain, holding the word base64, and 140 characters long
PipeNames == {<<"report">>, <<"bas", "e64", " ", "x">>, <<"d*140">>}

\* the embedded images of the documents converted
PipeItems ==
    << [name |-> <<"image1">>, ext |-> "png", page |-> 1, y |-> 5, pos |-> 3,
        ctx |-> <<"hello", " ", "world">>, blob |-> 1, fate |-> "ok"],
       [name |-> <<"image2">>, ext |-> "jpg", page |-> 2, y |-> 0, pos |-> 8,
        ctx |-> <<>>, blob |-> 2, fate |-> "ok"] >>

\* the link targets of the annotations of the PDFs converted
PipeLinks == {<<>>, << <<"https", ":", "/", "/", "host", "/", "hello">> >>}

\* md.convert has returned the raw text of a request: convert_file on a PDF,
\* a DOCX or an HTML file, or convert_url on its temporary file
PipeInit ==
    /\ \E t \in PipeTexts :
          doc = [text |-> t, raw |-> t, images |-> <<>>, base64_images |-> <<>>]
    /\ \E suffix \in {".pdf", ".docx", ".html", ""}, create_pages \in BOOLEAN,
          name \in PipeNames, n \in 0..Len(PipeItems), links \in PipeLinks :
          /\ suffix = "" => n = 0
          /\ ~IsPdf(suffix) => links = <<>>
          /\ job = [pc |-> "cleanup", source |-> IF suffix = "" THEN "url" ELSE "file",
                    suffix |-> suffix, create_pages |-> create_pages, name |-> name,
                    items |-> SubSeq(PipeItems, 1, n), links |-> links,
                    log |-> <<>>, status |-> 0]
    /\ disk = [images_dir |-> "configured", exists |-> FALSE, entries |-> {},
               made |-> 0]
    /\ sched = IdleSched /\ now = 0

PipeNext == RunStage \/ ExtractImages \/ ConvertBase64

SpecPipe == PipeInit /\ [][PipeNext]_vars

\* number of places where needle occurs in hay
Occurrences(needle, hay) ==
    Cardinality({k \in 1..(Len(hay) - Len(needle) + 1) :
                    SubSeq(hay, k, k + Len(needle) - 1) = needle})

\* C1: the content a conversion returns holds exactly one Markdown image
\* reference for each image record with a distinct filename that the
\* placement was given: none is referenced twice, none is dropped.
C1_EachRecordOnce ==
    /\ job.pc = "done"
    /\ \A j, k \in 1..Len(doc.images) :
          j # k => doc.images[j].filename # doc.images[k].filename
    => \A k \in 1..Len(doc.images) :
          Occurrences(ImageRef(doc.images[k]), doc.text) = 1

\* C5 as stated: the stages run in the order cleanup, extraction, headings,
\* annotation merge (PDF only), generic link conversion, placement,
\* base64-to-file conversion, final removal, pagination last, and only the
\* annotation merge is skipped for a file type.
C5_StatedOrder ==
    job.pc = "done" =>
        job.log = <<"cleanup", "extraction", "headings">>
                  \o (IF IsPdf(job.suffix) THEN <<"annotation_merge", "manual_links">>
                      ELSE <<>>)
                  \o <<"generic_links", "placement", "base64_files",
                       "final_removal", "pagination">>

\* C5: every conversion runs cleanup, extraction and heading normalization,
\* then for a PDF file the annotation merge and the manual term links, then
\* placement and pagination, then for everything but a PDF file the generic
\* link conversion, then the base64-to-file conversion and, as the last
\* stage, the final removal.
C5_StageOrder ==
    job.pc = "done" =>
        job.log = <<"cleanup", "extraction", "headings">>
                  \o (IF IsPdf(job.suffix) THEN <<"annotation_merge", "manual_links">>
                      ELSE <<>>)
                  \o <<"placement", "pagination">>
                  \o (IF IsPdf(job.suffix) THEN <<>> ELSE <<"generic_links">>)
                  \o <<"base64_files", "final_removal">>

\* a PDF with images, links and pagination went through every stage, and the
\* page marker put in before the final removal is in the returned content
C5_Witness ==
    /\ job.pc = "done" /\ job.status = 200 /\ IsPdf(job.suffix) /\ job.create_pages
    /\ Len(job.log) = 9 /\ job.log[7] = "pagination" /\ job.log[9] = "final_removal"
    /\ doc.images # <<>> /\ job.links # <<>>
    /\ Contains(doc.text, <<"#", "#", " ", "Page", " ", "1">>)

\* C9: when the raw text extraction has succeeded, no failure of an
\* enrichment stage ends the request in an error response.
C9_NoErrorResponse == job.status # 500

----------------------------------------------------------------------------
(* extract_images_from_file on documents whose images fail                 *)

MaxImages == 3

\* the embedded images of a document: image k is on page (in run) 1 or 2,
\* has bytes of its own, and reads, saves and probes well or not
ExtractItems ==
    UNION {[1..n -> [name : {<<"image">>}, ext : {"png"}, page : {1, 2}, y : {0},
                     pos : {-1}, ctx : {<<>>}, blob : {0},
                     fate : {"ok", "read", "save", "probe"}]] : n \in 1..MaxImages}

\* image k of items under a name and with bytes of its own
Numbered(items) ==
    [k \in 1..Len(items) |->
        [items[k] EXCEPT !.name = <<"image", ToString(k)>>, !.blob = k]]

\* a request has reached the extraction of the images of its file
ExtractInit ==
    /\ doc = [text |-> <<>>, raw |-> <<>>, images |-> <<>>, base64_images |-> <<>>]
    /\ \E suffix \in {".pdf", ".docx", ".pptx", ".xlsx", ".odt", ".html", ".zip"},
          items \in ExtractItems :
          job = [pc |-> "extraction", source |-> "file", suffix |-> suffix,
                 create_pages |-> FALSE, name |-> <<"report">>,
                 items |-> Numbered(items), links |-> <<>>, log |-> <<"cleanup">>,
                 status |-> 0]
    /\ disk = [images_dir |-> "configured", exists |-> FALSE, entries |-> {},
               made |-> 0]
    /\ sched = IdleSched /\ now = 0

SpecExtract == ExtractInit /\ [][ExtractImages]_vars

\* C10: when one image of a document cannot be read, saved or probed, the
\* handler returns every other image of the document, the ones after the
\* failing image included.
C10_OnlyFailingOmitted ==
    job.pc = "headings"
    /\ Cardinality({k \in 1..Len(job.items) : job.items[k].fate # "ok"}) = 1
    => Len(doc.images) >= Len(job.items) - 1

----------------------------------------------------------------------------
(* cleanup_old_images: the retention sweep of the image root               *)
(* The clock counts days.  An entry of the root is a record [name, is_dir,  *)
(* ctime, size].  A sweep meets at most one fault, [kind, name]:            *)
(*   "rmtree"  shutil.rmtree of the folder raises having removed nothing,   *)
(*   "rmdir"   it raises when the files are gone and the folder is left,    *)
(*   "size"    the walk of _get_folder_size raises at the first file,       *)
(*   "stat"    folder_path.stat() raises: the folder is gone meanwhile.     *)

\* config.IMAGE_CLEANUP_DAYS as deployed
CleanupDays == 1

MaxFolders == 2
MaxDays == 3
MaxSweeps == 3

FolderSizes == {0, 1, 2621440}

NoFault == [kind |-> "none", name |-> <<>>]

\* round(freed_space_bytes / (1024 * 1024), 2), in hundredths of a megabyte
FreedSpaceMb(freed_space_bytes) == (freed_space_bytes * 100 + 524288) \div 1048576

RECURSIVE TotalSize(_)
\* the sum of the sizes of the entries E
TotalSize(E) ==
    IF E = {} THEN 0
    ELSE LET e == CHOOSE x \in E : TRUE IN e.size + TotalSize(E \ {e})

\* the sweep that deletes a folder as soon as it is as old as the retention
SweepAtCutoff(d, t, days_old, fault, before) ==
    LET old == {e \in InRoot(d) : e.is_dir /\ e.ctime <= t - days_old}
    IN  [disk |-> [d EXCEPT !.entries = @ \ old],
         result |-> [status |-> "completed", deleted_folders |-> Cardinality(old),
                     freed_space_mb |-> FreedSpaceMb(TotalSize(old)),
                     deleted_folder_names |-> {e.name : e \in old}]]

\* the sweep that a folder it cannot delete brings to an end
SweepUntilFailure(d, t, days_old, fault, before) ==
    LET old == {e \in InRoot(d) : e.is_dir /\ e.ctime < t - days_old}
        failed == \E e \in old : e.name = fault.name
        deleted == IF failed /\ fault.kind \in {"rmtree", "rmdir"} THEN {} ELSE old
    IN  [disk |-> [d EXCEPT !.entries = @ \ deleted],
         result |-> [status |-> IF deleted = old THEN "completed" ELSE "error",
                     deleted_folders |-> Cardinality(deleted),
                     freed_space_mb |-> FreedSpaceMb(TotalSize(deleted)),
                     deleted_folder_names |-> {e.name : e \in deleted}]]

\* The root d after the sweep at time t and the dictionary it returns; before
\* holds the entries that iterdir yields ahead of the one whose stat raises.
\* deleted_folder_names is kept as a set: the names of a directory differ.
cleanup_old_images(d, t, days_old, fault, before) ==
    IF ~d.exists
    THEN [disk |-> d,
          result |-> [status |-> "skipped", deleted_folders |-> 0,
                      freed_space_mb |-> 0]]
    ELSE
    LET cutoff_time == t - days_old
        raised == fault.kind = "stat"
                  /\ \E e \in InRoot(d) : e.is_dir /\ e.name = fault.name
        visited == IF raised THEN before ELSE InRoot(d)
        old == {e \in visited : e.is_dir /\ e.ctime < cutoff_time}
        kept == {e \in old : fault.kind \in {"rmtree", "rmdir"} /\ e.name = fault.name}
        deleted == old \ kept
        folder_size == {[e EXCEPT !.size = IF fault.kind = "size" /\ e.name = fault.name
                                           THEN 0 ELSE e.size] : e \in deleted}
        left == {[e EXCEPT !.size = IF fault.kind = "rmdir" THEN 0 ELSE e.size] :
                    e \in kept}
    IN  [disk |-> [d EXCEPT !.entries = (@ \ old) \cup left],
         result |->
            IF raised
            THEN [status |-> "error", deleted_folders |-> Cardinality(deleted),
                  freed_space_mb |-> FreedSpaceMb(TotalSize(folder_size))]
            ELSE [status |-> "completed", deleted_folders |-> Cardinality(deleted),
                  freed_space_mb |-> FreedSpaceMb(TotalSize(folder_size)),
                  deleted_folder_names |-> {e.name : e \in deleted}]]

\* the faults a sweep of the root d can meet, each with the entries seen
\* ahead of it
Faults(d) ==
    {[fault |-> NoFault, before |-> InRoot(d)]}
    \cup {[fault |-> [kind |-> k, name |-> e.name], before |-> InRoot(d)] :
             k \in {"rmtree", "rmdir", "size"}, e \in {x \in InRoot(d) : x.is_dir}}
    \cup UNION {{[fault |-> [kind |-> "stat", name |-> e.name], before |-> B] :
                    B \in SUBSET (InRoot(d) \ {e})} :
                e \in {x \in InRoot(d) : x.is_dir}}

----------------------------------------------------------------------------
(* ImageCleanupScheduler                                                   *)
(* sched holds the scheduler object and what it shares with the schedule    *)
(* library: running, cleanup_time (its parts between the colons), jobs (the *)
(* library's job list, each job with the day of its next run), threads (the *)
(* _run_scheduler threads alive), sweeps (the run_cleanup calls made), the  *)
(* result and the fault of the last sweep, and the last call made.  The     *)
(* cleanup time of a day passes when the clock moves to the next day.       *)

MaxCalls == 4

DefaultTime == <<"02", "00">>

\* self.cleanup_time as configured: the default, a late time, an hour and a
\* minute out of range, a word, three parts
\* (each is written HH:MM with two digits or is replaced by the default, so
\* every().day.at() is given a time in the form the schedule library takes)
CleanupTimes == {DefaultTime, <<"23", "59">>, <<"25", "00">>, <<"02", "61">>,
                 <<"noon">>, <<"02", "00", "00">>, <<"24", "00">>, <<"02", "pm">>}

\* int(text), -1 when it raises ValueError
IntOf(text) ==
    CASE text = "00" -> 0 [] text = "02" -> 2 [] text = "23" -> 23
      [] text = "24" -> 24 [] text = "25" -> 25 [] text = "59" -> 59
      [] text = "61" -> 61
      [] OTHER -> -1

\* the validation that lets the hour 24 pass
UpToHour24(time_parts) ==
    IF /\ Len(time_parts) = 2
       /\ IntOf(time_parts[1]) \in 0..24
       /\ IntOf(time_parts[2]) \in 0..59
    THEN time_parts ELSE DefaultTime

\* the cleanup time start_scheduler goes on with
ValidatedTime(time_parts) ==
    IF /\ Len(time_parts) = 2
       /\ IntOf(time_parts[1]) \in 0..23
       /\ IntOf(time_parts[2]) \in 0..59
    THEN time_parts ELSE DefaultTime

\* run_cleanup: one sweep with the configured retention
run_cleanup(sc, d, t, fault, before) ==
    LET r == cleanup_old_images(d, t, CleanupDays, fault, before)
    IN  [sched |-> [sc EXCEPT !.sweeps = @ + 1, !.result = r.result,
                              !.fault = fault],
         disk |-> r.disk]

\* start_scheduler without the look at self.running
StartAgain(sc, d, t, fault, before) ==
    run_cleanup([sc EXCEPT !.cleanup_time = ValidatedTime(@),
                           !.jobs = Append(@, [at |-> ValidatedTime(sc.cleanup_time),
                                               next_run |-> t + 1]),
                           !.running = TRUE, !.threads = @ + 1],
                d, t, fault, before)

\* start_scheduler: the job, the flag, the thread, then the first sweep
start_scheduler(sc, d, t, fault, before) ==
    IF sc.running THEN [sched |-> sc, disk |-> d]
    ELSE run_cleanup([sc EXCEPT !.cleanup_time = ValidatedTime(@),
                                !.jobs = Append(@, [at |-> ValidatedTime(sc.cleanup_time),
                                                    next_run |-> t + 1]),
                                !.running = TRUE, !.threads = @ + 1],
                     d, t, fault, before)

\* stop_scheduler: schedule.clear() empties the job list; the join gives up
\* after a second, the thread ends when it next looks at self.running
stop_scheduler(sc) ==
    IF ~sc.running THEN sc ELSE [sc EXCEPT !.running = FALSE, !.jobs = <<>>]

RECURSIVE RunPending(_, _, _, _, _, _)
\* schedule.run_pending(): every job that is due, from job k on, runs
\* run_cleanup and is put off to the next day
RunPending(sc, d, t, fault, before, k) ==
    IF k > Len(sc.jobs) THEN [sched |-> sc, disk |-> d]
    ELSE IF sc.jobs[k].next_run > t THEN RunPending(sc, d, t, fault, before, k + 1)
    ELSE LET r == run_cleanup([sc EXCEPT !.jobs[k].next_run = t + 1], d, t, fault,
                              before \cap d.entries)
         IN  RunPending(r.sched, r.disk, t, fault, before, k + 1)

\* the loop that ends at an exception of the sweep it ran
LoopEndsOnFault(sc, d, t, fault, before) ==
    IF ~sc.running THEN [sched |-> [sc EXCEPT !.threads = @ - 1], disk |-> d]
    ELSE LET r == RunPending(sc, d, t, fault, before, 1)
         IN  IF r.sched.sweeps > sc.sweeps /\ r.sched.result.status = "error"
             THEN [sched |-> [r.sched EXCEPT !.threads = @ - 1], disk |-> r.disk]
             ELSE r

\* one turn of the loop of _run_scheduler in one of the threads
_run_scheduler(sc, d, t, fault, before) ==
    IF ~sc.running THEN [sched |-> [sc EXCEPT !.threads = @ - 1], disk |-> d]
    ELSE RunPending(sc, d, t, fault, before, 1)

\* get_status: next_cleanup is the day of the next run of the first job, -1
\* standing for None
get_status(sc, d) ==
    [running |-> sc.running, cleanup_days |-> CleanupDays,
     cleanup_time |-> sc.cleanup_time,
     next_cleanup |-> IF sc.jobs # <<>> THEN sc.jobs[1].next_run ELSE -1,
     images_directory |-> d.images_dir]

\* report is what the last get_status call returned, configured is
\* config.IMAGE_CLEANUP_TIME
NewSched(cleanup_time) ==
    [running |-> FALSE, configured |-> cleanup_time,
     cleanup_time |-> cleanup_time, jobs |-> <<>>, threads |-> 0,
     sweeps |-> 0, result |-> [status |-> "none"], fault |-> NoFault,
     calls |-> 0, call |-> "none", report |-> [images_directory |-> "none"]]

\* a conversion makes a document folder
CreateFolder ==
    /\ Cardinality({e \in disk.entries : e.is_dir}) < MaxFolders
    /\ \E n \in 1..MaxFolders, size \in FolderSizes :
          LET name == DocumentFolder(<<"report">>, Uuid(n))
          IN  /\ \A e \in disk.entries : e.name # name
              /\ disk' = [disk EXCEPT !.exists = TRUE,
                                       !.entries = @ \cup
                                           {Folder(disk.images_dir, name, now, size)}]
    /\ UNCHANGED <<doc, job, sched, now>>

\* a day passes
Tick ==
    /\ now < MaxDays
    /\ now' = now + 1
    /\ UNCHANGED <<doc, job, disk, sched>>

\* the scheduler calls run_cleanup
RunCleanup ==
    /\ sched.sweeps < MaxSweeps
    /\ \E f \in Faults(disk) :
          LET r == run_cleanup(sched, disk, now, f.fault, f.before)
          IN  sched' = r.sched /\ disk' = r.disk
    /\ UNCHANGED <<doc, job, now>>

\* get_cleanup_status
GetStatus ==
    /\ sched' = [sched EXCEPT !.report = get_status(sched, disk)]
    /\ UNCHANGED <<doc, job, disk, now>>

StartScheduler ==
    /\ sched.calls < MaxCalls
    /\ sched.running \/ sched.sweeps < MaxSweeps
    /\ \E f \in Faults(disk) :
          LET r == start_scheduler(sched, disk, now, f.fault, f.before)
          IN  /\ sched' = [r.sched EXCEPT !.calls = @ + 1, !.call = "start_scheduler"]
              /\ disk' = r.disk
    /\ UNCHANGED <<doc, job, now>>

StopScheduler ==
    /\ sched.calls < MaxCalls
    /\ sched' = [stop_scheduler(sched) EXCEPT !.calls = @ + 1,
                                              !.call = "stop_scheduler"]
    /\ UNCHANGED <<doc, job, disk, now>>

SchedulerLoop ==
    /\ sched.threads > 0
    /\ ~sched.running \/ sched.sweeps < MaxSweeps
    /\ \E f \in Faults(disk) :
          LET r == _run_scheduler(sched, disk, now, f.fault, f.before)
          IN  sched' = r.sched /\ disk' = r.disk
    /\ UNCHANGED <<doc, job, now>>

\* the image root: missing, or holding a file of its own
SweepInit ==
    /\ doc = IdleDoc /\ job = IdleJob /\ now = 0
    /\ sched = NewSched(DefaultTime)
    /\ \E exists \in BOOLEAN, files \in SUBSET {[root |-> "configured",
                                                 name |-> <<"readme">>,
                                                 is_dir |-> FALSE, ctime |-> 0,
                                                 size |-> 1]} :
          /\ ~exists => files = {}
          /\ disk = [images_dir |-> "configured", exists |-> exists,
                     entries |-> files]

SweepNext == CreateFolder \/ Tick \/ RunCleanup

SpecSweep == SweepInit /\ [][SweepNext]_vars

\* the scheduler is made; the root holds two folders of different ages
SchedInit ==
    /\ doc = IdleDoc /\ job = IdleJob
    /\ \E cleanup_time \in CleanupTimes : sched = NewSched(cleanup_time)
    /\ \E t \in 0..1 :
          /\ now = t
          /\ disk = [images_dir |-> "configured", exists |-> TRUE,
                     entries |-> {Folder("configured",
                                         DocumentFolder(<<"report">>, Uuid(1)), 0,
                                         2621440),
                                  Folder("configured",
                                         DocumentFolder(<<"report">>, Uuid(2)), t, 0)}]

SchedNext == StartScheduler \/ StopScheduler \/ SchedulerLoop \/ Tick

SpecSched == SchedInit /\ [][SchedNext]_vars

\* the folders of the root d that are older than the retention at time t
Expired(d, t) == {e \in InRoot(d) : e.is_dir /\ e.ctime < t - CleanupDays}

\* C6: a sweep that meets no failure deletes every immediate subdirectory of
\* the root that is older than the retention, leaves every other entry as it
\* is, and reports as many deleted folders, and as many names, as it removed.
C6_SweepDeletesExpired ==
    [][sched'.sweeps = sched.sweeps + 1 /\ sched'.fault = NoFault =>
          /\ disk'.entries = disk.entries \ Expired(disk, now)
          /\ sched'.result.deleted_folders = Cardinality(Expired(disk, now))
          /\ sched'.result.status = "completed" =>
                Cardinality(sched'.result.deleted_folder_names)
                    = Cardinality(Expired(disk, now))]_vars

\* a sweep without a failure has deleted a folder and left a younger folder
\* and the file of the root
C6_Witness ==
    /\ sched.sweeps > 0 /\ sched.fault = NoFault
    /\ sched.result.status = "completed" /\ sched.result.deleted_folders > 0
    /\ \E e \in disk.entries : e.is_dir
    /\ \E e \in disk.entries : ~e.is_dir

\* C7: when the deletion of one expired folder fails, the sweep deletes every
\* other expired folder, counts neither the failed folder nor its bytes, and
\* reports the status completed.
C7_FailedDeletionSkipped ==
    [][/\ sched'.sweeps = sched.sweeps + 1
       /\ sched'.fault.kind \in {"rmtree", "rmdir"}
       /\ \E e \in Expired(disk, now) : e.name = sched'.fault.name
       => LET others == {e \in Expired(disk, now) : e.name # sched'.fault.name}
          IN  /\ \A e \in others : \A x \in disk'.entries : x.name # e.name
              /\ \E x \in disk'.entries : x.name = sched'.fault.name
              /\ sched'.result.status = "completed"
              /\ sched'.result.deleted_folders = Cardinality(others)
              /\ sched'.result.deleted_folder_names = {e.name : e \in others}
              /\ sched'.result.freed_space_mb = FreedSpaceMb(TotalSize(others))]_vars

\* a sweep could not delete one expired folder, which is still there, and has
\* deleted another
C7_Witness ==
    /\ sched.sweeps > 0 /\ sched.fault.kind \in {"rmtree", "rmdir"}
    /\ \E x \in Expired(disk, now) : x.name = sched.fault.name
    /\ sched.result.status = "completed" /\ sched.result.deleted_folders > 0

\* C8: a start_scheduler call on a scheduler that is not running registers
\* one daily job and runs one sweep; a call on a running scheduler registers
\* no job, starts no thread and runs no sweep; so at most one daily job is
\* registered at any time, and none after stop_scheduler.
C8_OneDailyJob ==
    /\ [](Len(sched.jobs) <= 1 /\ (sched.call = "stop_scheduler" => sched.jobs = <<>>))
    /\ [][sched'.calls = sched.calls + 1 /\ sched'.call = "start_scheduler" =>
             IF sched.running
             THEN /\ sched'.jobs = sched.jobs /\ sched'.threads = sched.threads
                  /\ sched'.sweeps = sched.sweeps
             ELSE /\ Len(sched'.jobs) = Len(sched.jobs) + 1
                  /\ sched'.sweeps = sched.sweeps + 1]_vars

\* the scheduler has been started, stopped, started again and started once
\* more while it was running
C8_Witness ==
    /\ sched.calls = 4 /\ sched.call = "start_scheduler" /\ sched.running
    /\ Len(sched.jobs) = 1 /\ sched.sweeps = 2

----------------------------------------------------------------------------
(* One ImageExtractor over several requests, sweeps and status reports      *)

MaxRequests == 2

\* the requests: a DOCX with an image, or a URL, whose text holds an inline
\* base64 image or none
RootJobs ==
    {[pc |-> "cleanup", source |-> IF suffix = "" THEN "url" ELSE "file",
      suffix |-> suffix, create_pages |-> FALSE, name |-> <<"report">>,
      items |-> IF suffix = "" THEN <<>> ELSE SubSeq(PipeItems, 1, 1),
      links |-> <<>>, log |-> <<>>, status |-> 0, count |-> 1,
      text |-> t] :
        suffix \in {".docx", ""},
        t \in {<<"hello">>,
               <<"x", "\n", "!", "[", "x", "]", "(", "data", ":", "image", "/",
                 "png", ";", "bas", "e64", ",", "A*136", ")", "\n", "hello">>}}

NewDoc(j) == [text |-> j.text, raw |-> j.text, images |-> <<>>,
              base64_images |-> <<>>]

\* the module has been loaded: image_extractor = ImageExtractor(), and the
\* first request has its raw text
RootInit ==
    /\ \E j \in RootJobs : job = j /\ doc = NewDoc(j)
    /\ disk = [images_dir |-> "configured", exists |-> FALSE, entries |-> {},
               made |-> 0]
    /\ sched = NewSched(DefaultTime) /\ now = 0

\* the next request arrives when the last has been answered
NewRequest ==
    /\ job.pc \in {"done", "error"} /\ job.count < MaxRequests
    /\ \E j \in RootJobs : job' = [j EXCEPT !.count = job.count + 1] /\ doc' = NewDoc(j)
    /\ UNCHANGED <<disk, sched, now>>

\* between two requests the scheduler sweeps, the status is asked for, a
\* day passes
Answered == job.pc \in {"done", "error"}

SweepBetween == Answered /\ RunCleanup

StatusBetween == Answered /\ GetStatus

TickBetween == Answered /\ Tick

RootNext ==
    \/ RunStage \/ ExtractImages \/ ConvertBase64 \/ NewRequest
    \/ SweepBetween \/ StatusBetween \/ TickBetween

SpecRoot == RootInit /\ [][RootNext]_vars

\* C11: once images_dir is the fallback location it stays the fallback
\* location: every folder made later is made there, every sweep deletes or
\* empties folders there only, and every status report names it.
C11_FallbackSticks ==
    [][disk.images_dir = "temp" =>
          /\ disk'.images_dir = "temp"
          /\ \A e \in disk'.entries \ disk.entries : e.root = "temp"
          /\ \A e \in disk.entries \ disk'.entries : e.root = "temp"
          /\ sched'.report # sched.report =>
                sched'.report.images_directory = "temp"]_vars

\* the first request fell back; its folder was swept from the fallback
\* location days later, a second request has put its folder there, and the
\* status names the fallback location
C11_Witness ==
    /\ disk.images_dir = "temp" /\ job.count = 2 /\ job.pc = "done"
    /\ \E e \in disk.entries : e.root = "temp" /\ e.ctime = now
    /\ sched.result.status = "completed" /\ sched.result.deleted_folders > 0
    /\ sched.report.images_directory = "temp"

\* C12: whatever the configured cleanup time, the scheduler that has been
\* started runs with one daily job at its cleanup time, which is the
\* configured time when that is a valid HH:MM value and 02:00 when it is not.
C12_DefaultForInvalidTime ==
    LET valid == /\ Len(sched.configured) = 2
                 /\ sched.configured[1] \in {"00", "02", "23"}
                 /\ sched.configured[2] \in {"00", "59"}
    IN  /\ valid => sched.cleanup_time = sched.configured
        /\ sched.running =>
              /\ sched.cleanup_time = (IF valid THEN sched.configured
                                       ELSE <<"02", "00">>)
              /\ Len(sched.jobs) = 1 /\ sched.jobs[1].at = sched.cleanup_time

\* a scheduler configured with the hour 24 runs with its job at 02:00
C12_Witness ==
    /\ sched.configured = <<"24", "00">> /\ sched.running
    /\ sched.jobs # <<>> /\ sched.jobs[1].at = <<"02", "00">>

----------------------------------------------------------------------------
(* _convert_base64_images_to_files on texts that hold inline images         *)

MaxInline == 2

\* the payload of an inline image: one that decodes to 102 bytes, one of
\* fewer than 10 characters, one that decodes to 18 bytes, one that does not
\* decode
Payload(kind) ==
    CASE kind = "valid" -> <<"A*136">>
      [] kind = "short" -> <<"A*8">>
      [] kind = "small" -> <<"A*24">>
      [] OTHER          -> <<"A*136", "x">>

\* ![alt](data:image/png;base64,payload)
Inline(alt, kind) ==
    <<"!", "[", alt, "]", "(", "data", ":", "image", "/", "png", ";", "bas", "e64",
      ",">> \o Payload(kind) \o <<")">>

\* the text: what stands in front, the images on lines of their own, the rest
InlineText(before, kinds, after) ==
    before \o Cat([k \in 1..Len(kinds) |->
                      Inline(IF k = 1 THEN "x" ELSE "y", kinds[k]) \o <<"\n">>],
                  1, Len(kinds))
    \o after

\* the text has reached the resolver: it holds one or two inline images
\* below a title, below a paragraph far down the page, or at the very top
ResolveInit ==
    /\ \E before \in {<<>>, <<"#", " ", "Course", "\n">>,
                      <<"x", "\n", "\n", "\n", "\n", "\n", "\n", "\n", "hello", " ">>},
          after \in {<<>>, <<"hello", " ", "world", ".">>},
          kinds \in UNION {[1..n -> {"valid", "short", "small", "undecodable"}] :
                              n \in 1..MaxInline} :
          /\ doc = [text |-> InlineText(before, kinds, after),
                    raw |-> InlineText(before, kinds, after),
                    images |-> <<>>, base64_images |-> <<>>]
          /\ job = [pc |-> "base64_files", source |-> "file", suffix |-> ".docx",
                    create_pages |-> FALSE, name |-> <<"report">>, items |-> <<>>,
                    links |-> <<>>, kinds |-> kinds, before |-> before,
                    after |-> after,
                    log |-> <<>>, status |-> 0]
    /\ disk = [images_dir |-> "configured", exists |-> TRUE, entries |-> {},
               made |-> 0]
    /\ sched = IdleSched /\ now = 0

SpecResolve == ResolveInit /\ [][ConvertBase64]_vars

\* C13: the resolver turns a text with exactly one valid base64 Markdown
\* image into one image record and a text without base64 data that holds
\* exactly one reference to the image.
C13_OneRecordOneReference ==
    job.pc = "final_removal" /\ job.kinds = <<"valid">> /\ doc.base64_images # <<>>
    => /\ Len(doc.base64_images) = 1
       /\ ~Contains(doc.text, <<"bas", "e64">>)
       /\ Occurrences(<<"(">> \o doc.base64_images[1].url \o <<")">>, doc.text) = 1

\* C14: an inline image whose payload does not decode or decodes to fewer
\* than 100 bytes, payloads of fewer than 10 characters included, is
\* removed from the text and yields no image record.
C14_UndersizedRemoved ==
    /\ job.pc = "final_removal"
    /\ \A k \in 1..Len(job.kinds) : job.kinds[k] \in {"short", "small", "undecodable"}
    => /\ doc.base64_images = <<>>
       /\ ~Contains(doc.text, <<"data", ":", "image">>)

\* the folder part of the URL of an image record
UrlFolder(image) == SubSeq(image.url, 1, Len(image.url) - Len(image.filename))

\* C15: a conversion uses one document folder: the records of the extractor
\* and of the resolver all have their URL in the same folder, and the request
\* has made no other folder.
C15_SingleFolder ==
    job.pc = "done"
    => /\ \A a, b \in 1..Len(doc.images \o doc.base64_images) :
             UrlFolder((doc.images \o doc.base64_images)[a])
                 = UrlFolder((doc.images \o doc.base64_images)[b])
       /\ Cardinality(disk.entries) <= 1

----------------------------------------------------------------------------
(* extract_images_from_file on containers whose entries share a name        *)

MaxEntries == 2

\* image entries of a ZIP: no two have the same path.  The media entries of
\* a presentation are all in ppt/media, the entries of an archive anywhere.
Entries(suffix) ==
    LET entry == [dir : IF suffix = ".zip" THEN {"a", "b"} ELSE {"ppt/media"},
                  name : {<<"logo">>, <<"image1">>}, ext : {"png", "jpg", "gif"},
                  page : {0}, y : {0}, pos : {-1}, ctx : {<<>>}, blob : {0},
                  fate : {"ok"}]
    IN  {items \in UNION {[1..n -> entry] : n \in 1..MaxEntries} :
            \A a, b \in 1..Len(items) :
                a # b => <<items[a].dir, items[a].name, items[a].ext>>
                         # <<items[b].dir, items[b].name, items[b].ext>>}

\* a request has reached the extraction of the images of its container
EntriesInit ==
    /\ doc = [text |-> <<>>, raw |-> <<>>, images |-> <<>>, base64_images |-> <<>>]
    /\ \E suffix \in {".pptx", ".zip"} :
          \E items \in Entries(suffix) :
              job = [pc |-> "extraction", source |-> "file", suffix |-> suffix,
                     create_pages |-> FALSE, name |-> <<"report">>,
                     items |-> items, links |-> <<>>, log |-> <<"cleanup">>,
                     status |-> 0]
    /\ disk = [images_dir |-> "configured", exists |-> FALSE, entries |-> {},
               made |-> 0]
    /\ sched = IdleSched /\ now = 0

SpecEntries == EntriesInit /\ [][ExtractImages]_vars

\* C16: the image records of one document folder have distinct filenames
\* and the folder holds a file for each of them: no image is written over
\* another, whatever the names of the entries of the container.
C16_DistinctFilenames ==
    job.pc = "headings"
    => /\ \A a, b \in 1..Len(doc.images) :
             a # b => doc.images[a].filename # doc.images[b].filename
       /\ \A e \in disk.entries : e.size = Len(doc.images)

\* C17: a sweep that deletes a folder holding at least one byte reports a
\* freed space above zero, the figure for the sizes of all folders it deleted.
C17_FreedSpacePositive ==
    [][LET deleted == {e \in disk.entries :
                          \A x \in disk'.entries : x.name # e.name}
       IN  sched'.sweeps = sched.sweeps + 1 /\ (\E e \in deleted : e.size >= 1)
           => /\ sched'.result.freed_space_mb > 0
              /\ sched'.result.freed_space_mb = FreedSpaceMb(TotalSize(deleted))]_vars

----------------------------------------------------------------------------
(* _integrate_images_into_markdown on images without position or context   *)

MaxPlaceLines == 5
MaxPlaced == 4

\* the lines of the texts: two headings, a sentence, an empty line
PlaceLineKinds ==
    {<<"#", " ", "x">>, <<"#", " ", "Page", " ", "x">>,
     <<"hello", " ", "world", ".">>, <<>>}

\* a presentation has reached the placement of its images: its media are
\* image1.png, image2.png, ... of the folder report_u0000001
PlaceInit ==
    /\ \E lines \in UNION {[1..n -> PlaceLineKinds] : n \in 1..MaxPlaceLines},
          n \in 1..MaxPlaced :
          LET items == Numbered([k \in 1..n |->
                          [name |-> <<"image">>, ext |-> "png", page |-> 0, y |-> 0,
                           pos |-> -1, ctx |-> <<>>, blob |-> 0, fate |-> "ok"]])
              folder == DocumentFolder(<<"report">>, Uuid(1))
          IN  /\ doc = [text |-> JoinLines(lines), raw |-> JoinLines(lines),
                        images |-> extract_images_from_file(".pptx", items, folder),
                        base64_images |-> <<>>]
              /\ job = [pc |-> "placement", source |-> "file", suffix |-> ".pptx",
                        create_pages |-> FALSE, name |-> <<"report">>,
                        items |-> items, links |-> <<>>,
                        log |-> <<"cleanup", "extraction", "headings">>, status |-> 0]
              /\ disk = [images_dir |-> "configured", exists |-> TRUE,
                         entries |-> {Folder("configured", folder, 0, n)}, made |-> 1]
    /\ sched = IdleSched /\ now = 0

\* content = _integrate_images_with_advanced_positioning(content, images, file_path)
PlaceImages == job.pc = "placement" /\ RunStage

SpecPlace == PlaceInit /\ [][PlaceImages]_vars

\* line i of lines is a heading line of the text
IsHeadingLine(lines, i) == Strip(lines[i]) # <<>> /\ Strip(lines[i])[1] = "#"

\* the index of the line that starts the trailing section, past the end
\* when there is none
TrailerAt(lines) ==
    IF \E i \in 1..Len(lines) : lines[i] = <<"#", "#", " ", "Document", " ", "Images">>
    THEN CHOOSE i \in 1..Len(lines) :
             lines[i] = <<"#", "#", " ", "Document", " ", "Images">>
    ELSE Len(lines) + 1

\* C18: with at most 3 images that have no position or context and at least
\* as many heading lines, image k stands right after the k-th heading line
\* and the trailing section holds no image, whatever the headings say and
\* wherever they stand.
C18_OnePerHeading ==
    LET raw == SplitLines(doc.raw)
        out == SplitLines(doc.text)
        n == Len(doc.images)
        nth(k) == CHOOSE i \in 1..Len(out) :
                      /\ IsHeadingLine(out, i)
                      /\ Cardinality({j \in 1..i : IsHeadingLine(out, j)}) = k
    IN  /\ job.pc = "pagination" /\ n <= 3
        /\ Cardinality({i \in 1..Len(raw) : IsHeadingLine(raw, i)}) >= n
        => /\ TrailerAt(out) > Len(out)
           /\ \A k \in 1..n :
                 /\ nth(k) + 2 <= Len(out)
                 /\ out[nth(k) + 1] = <<>>
                 /\ out[nth(k) + 2] = ImageRef(doc.images[k])

\* C19: of the images that have no position or context at most 3 stand
\* inline, however many headings the text has, and every other image stands
\* in the trailing section.
C19_AtMostThreeInline ==
    LET out == SplitLines(doc.text)
        refs == {ImageRef(doc.images[k]) : k \in 1..Len(doc.images)}
        inline == {i \in 1..Len(out) : i < TrailerAt(out) /\ out[i] \in refs}
        trailing == {i \in 1..Len(out) : i > TrailerAt(out) /\ out[i] \in refs}
    IN  job.pc = "pagination"
        => /\ Cardinality(inline) <= 3
           /\ Cardinality(inline) + Cardinality(trailing) = Len(doc.images)

\* C20: with pagination on, a text that holds form feeds, of a PDF or not,
\* comes back as its form-feed-delimited segments, each under its page
\* marker; the line counts of the text play no part.
C20_FormFeedPages ==
    doc.calls = 1 /\ job.create_pages /\ FirstAt(doc.prev, 1, {"\f"}) # 0
    => doc.text = Join(FeedPages(doc.prev), <<"\n", "\n", "-", "-", "-", "\n", "\n">>)

----------------------------------------------------------------------------
(* _enhance_heading_detection on the section titles of its allow-list       *)

MaxTitleFrags == 4

\* an empty line, two titles of the allow-list, a sentence, a word
TitleFrags == {
    <<"\n">>, <<"Grading", " ", "Scheme", "\n">>, <<"Office", " ", "Hours", "\n">>,
    <<"hello", " ", "world", "\n">>, <<"x", "\n">> }

TitlesInit ==
    /\ DocInit({Cat(fs, 1, Len(fs)) :
                   fs \in UNION {[1..n -> TitleFrags] : n \in 0..MaxTitleFrags}})
    /\ job = IdleJob /\ disk = IdleDisk /\ sched = IdleSched /\ now = 0

SpecTitles == TitlesInit /\ [][EnhanceHeadings]_vars

\* C21: a line that reads as a section title of the allow-list and stands
\* after an empty line comes back as a level-1 heading, whatever the general
\* heuristic and the keyword exclusions make of it.
C21_AllowListPromoted ==
    LET lines == SplitLines(doc.prev)
        out == SplitLines(doc.text)
    IN  doc.calls = 1
        => \A i \in 2..Len(lines) :
              /\ Strip(lines[i - 1]) = <<>>
              /\ lines[i] \in {<<"Grading", " ", "Scheme">>, <<"Office", " ", "Hours">>}
              => i <= Len(out) /\ out[i] = <<"#", " ">> \o lines[i]

RECURSIVE Embeds(_, _, _, _)
\* a[i..] can be read in b[j..] from left to right, skipping what is between
Embeds(a, i, b, j) ==
    IF i > Len(a) THEN TRUE
    ELSE IF j > Len(b) THEN FALSE
    ELSE Embeds(a, IF a[i] = b[j] THEN i + 1 ELSE i, b, j + 1)

\* C22: the resolver changes the characters of its matches only: what the
\* text holds outside the inline images is in the output, in its order.
C22_OutsideMatchesKept ==
    job.pc = "final_removal"
    => Embeds(job.before \o [k \in 1..Len(job.kinds) |-> "\n"] \o job.after, 1,
              doc.text, 1)

----------------------------------------------------------------------------
(* The three placement paths on images with and without an offset           *)

MaxInsertLines == 4
MaxInserted == 2

\* the lines of the texts: a heading, an empty line, a sentence, a word
InsertLineKinds == {<<"#", " ", "x">>, <<>>, <<"hello", " ", "world", ".">>, <<"x">>}

\* image k of a document: with or without a character offset, with or
\* without the words around it
InsertImages ==
    LET folder == DocumentFolder(<<"report">>, Uuid(1))
        image(k, pos, ctx) ==
            [content_context |-> ctx]
            @@ ImageInfo(<<"image", "_", ToString(k), ".", "png">>, folder,
                         [page |-> 0, y |-> 0, pos |-> pos, ctx |-> ctx],
                         IF pos = -1 THEN "none" ELSE "offset")
    IN  UNION {{[k \in 1..n |-> image(k, pos[k], ctx[k])] :
                   pos \in [1..n -> {-1, 0, 14}],
                   ctx \in [1..n -> {<<>>, <<"hello", " ", "world">>}]} :
               n \in 1..MaxInserted}

\* a request has reached the placement of the images of its file
InsertInit ==
    /\ \E lines \in UNION {[1..n -> InsertLineKinds] : n \in 1..MaxInsertLines},
          images \in InsertImages, suffix \in {".docx", ".pptx"} :
          /\ doc = [text |-> JoinLines(lines), raw |-> JoinLines(lines),
                    images |-> images, base64_images |-> <<>>]
          /\ job = [pc |-> "placement", source |-> "file", suffix |-> suffix,
                    create_pages |-> FALSE, name |-> <<"report">>, items |-> <<>>,
                    links |-> <<>>, log |-> <<"cleanup", "extraction", "headings">>,
                    status |-> 0]
    /\ disk = [images_dir |-> "configured", exists |-> TRUE,
               entries |-> {Folder("configured",
                                   DocumentFolder(<<"report">>, Uuid(1)), 0, 1)},
               made |-> 1]
    /\ sched = IdleSched /\ now = 0

SpecInsert == InsertInit /\ [][PlaceImages]_vars

\* C23: the line chosen for a DOCX image with an offset is within 3 lines
\* of the line of the offset and follows the priority over that window: a
\* heading line if there is one, else a line after an empty line and before
\* a non-empty one, else a line with 2 words of the context, else the line
\* of the offset.
C23_PriorityOverWindow ==
    LET lines == SplitLines(doc.raw)
        n == Len(lines)
        blank(i) == Strip(lines[i]) = <<>>
        heading(i) == IsHeadingLine(lines, i)
        break(i) == i > 1 /\ blank(i - 1) /\ i < n /\ ~blank(i + 1)
        near(im, i) == WordHits(Words(Lower(im.content_context)), Lower(lines[i])) >= 2
        Chosen(im, t, c, W) ==
            /\ c \in W
            /\ IF \E i \in W : heading(i) THEN heading(c)
               ELSE IF \E i \in W : break(i) THEN break(c)
               ELSE IF \E i \in W : near(im, i) THEN near(im, c)
               ELSE c = t
        At(im, t) == Chosen(im, t, _find_best_insertion_point(lines, t, im),
                            {i \in 1..n : i - t \in -3..3})
    IN  job.pc = "pagination" /\ job.suffix = ".docx"
        => \A k \in 1..Len(doc.images) :
              doc.images[k].position_in_content # -1
              => At(doc.images[k], BestLine(lines, doc.images[k].position_in_content))

RECURSIVE WithoutInserted(_, _, _)
\* the lines out[i..] without the blocks "", reference, "" and without the
\* trailing section, refs being the references of the images
WithoutInserted(out, i, refs) ==
    IF i > Len(out) THEN <<>>
    ELSE IF /\ i + 4 <= Len(out)
            /\ SubSeq(out, i, i + 2) = << <<>>, <<"-", "-", "-">>, <<>> >>
            /\ out[i + 3] \in {<<"#", "#", " ", "Document", " ", "Images">>,
                               <<"#", "#", " ", "Additional", " ", "Images">>}
            /\ \A j \in (i + 4)..Len(out) : out[j] = <<>> \/ out[j] \in refs
    THEN <<>>
    ELSE IF i + 2 <= Len(out) /\ out[i] = <<>> /\ out[i + 1] \in refs
            /\ out[i + 2] = <<>>
    THEN WithoutInserted(out, i + 3, refs)
    ELSE <<out[i]>> \o WithoutInserted(out, i + 1, refs)

\* C29: the placement only inserts lines: the output without the image
\* references, their empty lines and the trailing section is the input, line
\* by line.
C29_OnlyInserts ==
    job.pc = "pagination"
    => WithoutInserted(SplitLines(doc.text), 1,
                       {ImageRef(doc.images[k]) : k \in 1..Len(doc.images)})
       = SplitLines(doc.raw)

\* a text with an empty first line has taken one image between its lines
\* and another in the trailing section
C29_Witness ==
    /\ job.pc = "pagination" /\ job.suffix = ".docx"
    /\ Len(doc.images) = 2 /\ doc.raw # <<>> /\ doc.raw[1] = "\n"
    /\ doc.images[1].position_in_content # -1
    /\ doc.images[2].position_in_content = -1
    /\ Contains(doc.text, <<"Additional", " ", "Images">>)
    /\ Len(SplitLines(doc.text)) > Len(SplitLines(doc.raw)) + 3

\* C30: the DOCX images with an offset stand in the output in the order of
\* their offsets, also when two of them go to the same line or are moved
\* away from the line of their offset.
C30_OffsetOrder ==
    LET out == SplitLines(doc.text)
        at(im) == FirstAt(out, 1, {ImageRef(im)})
    IN  job.pc = "pagination" /\ job.suffix = ".docx"
        => \A a, b \in 1..Len(doc.images) :
              /\ doc.images[a].position_in_content # -1
              /\ doc.images[a].position_in_content
                    < doc.images[b].position_in_content
              => at(doc.images[a]) < at(doc.images[b])

----------------------------------------------------------------------------
(* _integrate_pdf_hyperlinks on texts that repeat a term and hold links     *)

MaxMergeFrags == 3

\* the term, other words, a link with the term in its target, a link with
\* the term at the head of its text, a link with the term deep in its text
MergeFrags == {
    <<"hello", " ">>, <<"world", ".", " ">>,
    <<"[", "x", "]", "(", "https", ":", "/", "/", "host", "/", "hello", ")", " ">>,
    <<"[", "hello", " ", "world", "]", "(", "x", ")", " ">>,
    <<"[", "Course", " ", "Outline", " ", "hello", " ", "Course", " ", "Outline",
      "]", "(", "x", ")", " ">> }

\* the text of a PDF has reached the merge of its link annotations
MergeInit ==
    /\ \E t \in {Cat(fs, 1, Len(fs)) :
                    fs \in UNION {[1..n -> MergeFrags] : n \in 0..MaxMergeFrags}},
          links \in PipeLinks :
          /\ doc = [text |-> t, raw |-> t, images |-> <<>>, base64_images |-> <<>>]
          /\ job = [pc |-> "annotation_merge", source |-> "file", suffix |-> ".pdf",
                    create_pages |-> FALSE, name |-> <<"report">>, items |-> <<>>,
                    links |-> links, log |-> <<"cleanup", "extraction", "headings">>,
                    status |-> 0]
    /\ disk = [images_dir |-> "configured", exists |-> TRUE, entries |-> {},
               made |-> 0]
    /\ sched = IdleSched /\ now = 0

\* content = _integrate_pdf_hyperlinks(content, pdf_hyperlinks)
MergeLinks == job.pc = "annotation_merge" /\ RunStage

SpecMerge == MergeInit /\ [][MergeLinks]_vars

\* C24: the merge wraps one occurrence of a mapped term in a link and
\* leaves every later occurrence as plain text.
C24_OneOccurrenceWrapped ==
    job.pc = "manual_links" /\ job.links # <<>>
    => Occurrences(<<"[", "hello", "]", "(">> \o job.links[1] \o <<")">>,
                   doc.text) <= 1

\* C25: after the merge no link stands inside the text or the target of
\* another link: between a "[" and its "]", and between a "(" and its ")",
\* there is no "[".
C25_NoNestedLink ==
    job.pc = "manual_links"
    => \A i \in 1..Len(doc.text) :
          doc.text[i] \in {"[", "("}
          => LET close == FirstAt(doc.text, i + 1,
                                  {IF doc.text[i] = "[" THEN "]" ELSE ")"})
                 open == FirstAt(doc.text, i + 1, {"["})
             IN  open = 0 \/ (close # 0 /\ close < open)

\* the lines after which the output out has a page break: the marker of
\* page j + 1 stands at index 2 + b + 5 * (j - 1) + 4 when the break follows
\* line b of the text
BreaksOf(out) ==
    UNION {{m - 5 * j - 1 : m \in {k \in 1..Len(out) :
                                      out[k] = PageMarker(j + 1)[1]}} :
           j \in 1..Len(out)}

\* C26: in the pagination of a PDF a break follows a line exactly when,
\* counting the lines since the last break up to that line, the line is the
\* first of two empty lines before content and the count is above 20, or a
\* heading after an empty line and the count is above 30, or an empty line
\* and the count is above 50; so between two markers there are at least 20
\* lines of the text.
C26_BreakConditions ==
    LET lines == SplitLines(doc.prev)
        out == SplitLines(doc.text)
        n == Len(lines)
        B == BreaksOf(out)
        blank(i) == Strip(lines[i]) = <<>>
        count(i) == i - (IF \E b \in B : b < i
                         THEN CHOOSE b \in B : b < i /\ \A c \in B : c < i => c <= b
                         ELSE 0)
        due(i) == \/ /\ blank(i) /\ i + 2 <= n /\ blank(i + 1) /\ ~blank(i + 2)
                     /\ count(i) > 20
                  \/ /\ IsHeadingLine(lines, i) /\ i > 1 /\ blank(i - 1)
                     /\ count(i) > 30
                  \/ blank(i) /\ count(i) > 50
    IN  doc.calls = 1 /\ job.create_pages /\ IsPdf(job.suffix) /\ doc.prev # <<>>
        => /\ B \subseteq 1..n
           /\ Len(out) = n + 2 + 5 * Cardinality(B)
           /\ \A i \in 1..n : i \in B <=> due(i)
           /\ \A b \in B : count(b) > 20

\* a PDF text has taken a second page marker after a heading
C26_Witness ==
    /\ doc.calls = 1 /\ job.create_pages /\ IsPdf(job.suffix)
    /\ \E m \in 5..Len(SplitLines(doc.text)) :
          /\ SplitLines(doc.text)[m] = PageMarker(2)[1]
          /\ SplitLines(doc.text)[m - 4] = <<"#", " ", "x">>

----------------------------------------------------------------------------
(* The loop threads of the scheduler over start and stop calls              *)

\* C27: after any start_scheduler and stop_scheduler calls at most one thread
\* is in the loop of _run_scheduler, also when the scheduler is stopped and
\* started again before the loop of the first start has woken and looked at
\* self.running.
C27_AtMostOneLoop == sched.threads <= 1

\* the scheduler with its loop threads, the status calls, and the sleep of a
\* loop that is to end coming to its end
SchedFairNext == SchedNext \/ GetStatus

SpecSchedFair ==
    SchedInit /\ [][SchedFairNext]_vars /\ WF_vars(SchedulerLoop)

\* C28: once the scheduler is stopped and not started again every loop thread
\* ends, no sweep is started while it is stopped other than the one of a new
\* start_scheduler call, get_status reports running false and no next
\* cleanup, and a loop thread ends only when the scheduler is stopped, never
\* at the exception of a sweep.
C28_StopEndsLoop ==
    /\ (~sched.running) ~> (sched.threads = 0 \/ sched.running)
    /\ [][~sched.running /\ sched'.sweeps # sched.sweeps =>
             sched'.call = "start_scheduler" /\ sched'.calls = sched.calls + 1]_vars
    /\ [](~sched.running => /\ get_status(sched, disk).running = FALSE
                            /\ get_status(sched, disk).next_cleanup = -1)
    /\ [][sched'.threads < sched.threads => ~sched.running]_vars

\* the scheduler was started, its loop ran a sweep that raised, the scheduler
\* was stopped, the loop has ended and the status was read
C28_Witness ==
    /\ sched.calls = 2 /\ sched.call = "stop_scheduler" /\ ~sched.running
    /\ sched.threads = 0 /\ sched.sweeps = 2 /\ sched.result.status = "error"
    /\ sched.report = get_status(sched, disk)

=============================================================================
